---- MODULE Spec2Model ----
(***************************************************************************)
(* A model of mlelr (maximum likelihood estimation of multinomial logistic *)
(* regression): the frequency tabulator (tabulate.c), the design builder   *)
(* and the Newton-Raphson driver (mlelr.c) and the dataset container       *)
(* (dataset.c).                                                            *)
(*                                                                         *)
(* Conventions.  A C array a[0..n-1] is the sequence <<a[0], ..., a[n-1]>>,*)
(* so the C index i is the position i+1; variable positions, main-effect   *)
(* indices, population indices and column indices are all positions.  The  *)
(* "no weight variable" value -1 of dataset.weight is the position 0.      *)
(* The doubles stored in a dataset are finite numbers, modelled by         *)
(* integers, on which ==, != , < and > are the integer comparisons.        *)
(***************************************************************************)
EXTENDS Integers, Sequences, FiniteSets, TLC

\* ---------------------------------------------------------------- bounds

\* Largest number of observations of the input dataset.
MaxObs == 3

\* The covariates a and b take their values in 0..MaxVal.
MaxVal == 2

\* The response y takes its values in 0..MaxResp.
MaxResp == 1

\* ------------------------------------------------------- the input dataset

\* The variables of the input dataset, by position: a, b, y.
VarNames == <<"a", "b", "y">>

\* One observation: a fixed-length vector indexed by variable position.
Rows == {<<a, b, y>> : a \in 0..MaxVal, b \in 0..MaxVal, y \in 0..MaxResp}

RECURSIVE SeqsUpTo(_, _)
SeqsUpTo(S, n) ==
    IF n = 0 THEN {<<>>}
    ELSE LET shorter == SeqsUpTo(S, n - 1)
         IN  shorter \cup {Append(s, x) : s \in {t \in shorter : Len(t) = n - 1}, x \in S}

\* ------------------------------------------------------------- dataset.c

\* add_observation: append the observation to the dataset.
add_observation(obs, row) == Append(obs, row)

\* compare_obs: skip the leading columns that are equal, at most sort_columns
\* of them, and compare the column reached (which is the column after the
\* key when the whole key is equal).
RECURSIVE FirstDiff(_, _, _, _)
FirstDiff(a, b, i, sort_columns) ==
    IF i <= sort_columns /\ a[i] = b[i] THEN FirstDiff(a, b, i + 1, sort_columns)
    ELSE i

compare_obs(a, b, sort_columns) ==
    LET i == FirstDiff(a, b, 1, sort_columns)
    IN  (IF a[i] > b[i] THEN 1 ELSE 0) - (IF a[i] < b[i] THEN 1 ELSE 0)

\* sort_dataset: qsort of the observations under compare_obs.  Two rows
\* compare equal only when they agree on the key and on the column after it,
\* that is, for the two-column frequency tables and the crosstab, when they
\* are the same row; so the result is the one ascending arrangement.
RECURSIVE InsertObs(_, _, _)
InsertObs(row, sorted, n_cols) ==
    IF sorted = <<>> THEN <<row>>
    ELSE IF compare_obs(row, Head(sorted), n_cols) <= 0 THEN <<row>> \o sorted
    ELSE <<Head(sorted)>> \o InsertObs(row, Tail(sorted), n_cols)

\* A variant of sort_dataset that leaves the observations in insertion order.
sort_dataset_none(obs, n_cols) == obs

RECURSIVE sort_dataset(_, _)
sort_dataset(obs, n_cols) ==
    IF obs = <<>> THEN <<>>
    ELSE InsertObs(Head(obs), sort_dataset(Tail(obs), n_cols), n_cols)

\* find_observation: the position of the first observation whose first
\* n_vars columns equal those of obs, or 0 (C: -1) when there is none.
MatchesObs(row, obs, n_vars) == \A j \in 1..n_vars : obs[j] = row[j]

find_observation(ds_obs, obs, n_vars) ==
    IF \E i \in 1..Len(ds_obs) : MatchesObs(ds_obs[i], obs, n_vars)
    THEN CHOOSE i \in 1..Len(ds_obs) :
            /\ MatchesObs(ds_obs[i], obs, n_vars)
            /\ \A h \in 1..(i - 1) : ~MatchesObs(ds_obs[h], obs, n_vars)
    ELSE 0

\* ------------------------------------------------------------ tabulate.c

\* A variant of ObsWeight that counts every observation once.
ObsWeight_one(weightvar, row) == 1

\* The weight of an observation: 1 when the dataset has no weight variable.
ObsWeight(weightvar, row) == IF weightvar = 0 THEN 1 ELSE row[weightvar]

\* The value of the j-th crosstab variable in an observation: the main
\* effects in declared order, then the dependent variable.
Target(mod, row, j) == IF j <= Len(mod.iv) THEN row[mod.iv[j]] ELSE row[mod.dv]

\* The search of one frequency table for the target, and its update: a new
\* (value, weight) entry at the end, or the weight added to the entry found.
FreqFind(freq, target) ==
    IF \E k \in 1..Len(freq) : freq[k][1] = target
    THEN CHOOSE k \in 1..Len(freq) :
            /\ freq[k][1] = target
            /\ \A h \in 1..(k - 1) : freq[h][1] # target
    ELSE 0

\* A variant of FreqUpdate that stores the weight in the entry found.
FreqUpdate_replace(freq, target, weight) ==
    LET k == FreqFind(freq, target)
    IN  IF k = 0 THEN add_observation(freq, <<target, weight>>)
        ELSE [freq EXCEPT ![k] = <<freq[k][1], weight>>]

FreqUpdate(freq, target, weight) ==
    LET k == FreqFind(freq, target)
    IN  IF k = 0 THEN add_observation(freq, <<target, weight>>)
        ELSE [freq EXCEPT ![k] = <<freq[k][1], freq[k][2] + weight>>]

\* The update of the crosstab with the tuple of one observation.
XtabUpdate(xtab, obs, weight) ==
    LET found == find_observation(xtab, obs, Len(obs))
    IN  IF found = 0 THEN add_observation(xtab, Append(obs, weight))
        ELSE [xtab EXCEPT ![found] =
                 [xtab[found] EXCEPT ![Len(obs) + 1] = xtab[found][Len(obs) + 1] + weight]]

\* The body of the loop over the observations.
TabulateObs(mod, weightvar, tabs, row) ==
    LET weight == ObsWeight(weightvar, row)
        nv     == Len(mod.iv) + 1
        obs    == [j \in 1..nv |-> Target(mod, row, j)]
    IN  IF weight > 0
        THEN [freqs |-> [j \in 1..nv |-> FreqUpdate(tabs.freqs[j], obs[j], weight)],
              xtab  |-> XtabUpdate(tabs.xtab, obs, weight)]
        ELSE tabs

RECURSIVE TabulateLoop(_, _, _, _, _)
TabulateLoop(mod, weightvar, obs, i, tabs) ==
    IF i > Len(obs) THEN tabs
    ELSE TabulateLoop(mod, weightvar, obs, i + 1,
                      TabulateObs(mod, weightvar, tabs, obs[i]))

\* tabulate: empty tables, the loop over the observations, then the sort of
\* every frequency table on its value and of the crosstab on its whole key.
tabulate(dataset, mod) ==
    LET nv     == Len(mod.iv) + 1
        empty  == [freqs |-> [j \in 1..nv |-> <<>>], xtab |-> <<>>]
        filled == TabulateLoop(mod, dataset.weight, dataset.obs, 1, empty)
    IN  [freqs |-> [j \in 1..nv |-> sort_dataset(filled.freqs[j], 1)],
         xtab  |-> sort_dataset(filled.xtab, nv)]

\* --------------------------------------------------- mlelr.c: the design

\* An element of emalloc'ed memory that has not been written: its value is
\* indeterminate.  The marker is a number no computation below produces.
Uninit == 0 - 1000

\* Step 2: population segmentation.  Row i starts a new population when one
\* of its covariate columns differs from that of row i-1.
PopChange(xtab, i, xtabcols) ==
    \E j \in 1..(xtabcols - 2) : xtab[i][j] # xtab[i - 1][j]

RECURSIVE PopIndexLoop(_, _, _, _)
PopIndexLoop(xtab, xtabcols, i, popindex) ==
    IF i > Len(xtab) THEN popindex
    ELSE LET N == popindex[i - 1] + (IF PopChange(xtab, i, xtabcols) THEN 1 ELSE 0)
         IN  PopIndexLoop(xtab, xtabcols, i + 1, Append(popindex, N))

\* The population index of every crosstab row; the first row is given the
\* first population without a look at the crosstab.
PopIndex(xtab, xtabcols) == PopIndexLoop(xtab, xtabcols, 2, <<1>>)

RECURSIVE SumWeights(_, _, _)
SumWeights(xtab, xtabcols, i) ==
    IF i > Len(xtab) THEN 0
    ELSE xtab[i][xtabcols] + SumWeights(xtab, xtabcols, i + 1)

\* A variant of ColCount that gives a categorical effect one column for each
\* of its levels.
ColCount_all(mod, freqs, i) == IF mod.direct[i] = 1 THEN 1 ELSE Len(freqs[i])

\* Step 3: the number of columns of X.
ColCount(mod, freqs, i) == IF mod.direct[i] = 1 THEN 1 ELSE Len(freqs[i]) - 1

RECURSIVE MainCols(_, _, _)
MainCols(mod, freqs, i) ==
    IF i > Len(mod.iv) THEN 0
    ELSE ColCount(mod, freqs, i) + MainCols(mod, freqs, i + 1)

RECURSIVE IntProduct(_, _, _, _)
IntProduct(mod, freqs, terms, j) ==
    IF j > Len(terms) THEN 1
    ELSE (IF mod.direct[terms[j]] = 0 THEN Len(freqs[terms[j]]) - 1 ELSE 1)
         * IntProduct(mod, freqs, terms, j + 1)

RECURSIVE IntCols(_, _, _)
IntCols(mod, freqs, i) ==
    IF i > Len(mod.ints) THEN 0
    ELSE IntProduct(mod, freqs, mod.ints[i], 1) + IntCols(mod, freqs, i + 1)

DesignK(mod, freqs) == 1 + MainCols(mod, freqs, 1) + IntCols(mod, freqs, 1)

\* A write of X[xr][c]: past the end of the row it is a write outside the
\* memory allocated for the row, kept here as a longer row; before the start
\* of the row it leaves the row as it is.
WriteCell(row, c, v) ==
    IF c < 1 THEN row
    ELSE IF c <= Len(row) THEN [row EXCEPT ![c] = v]
    ELSE row \o [k \in 1..(c - Len(row) - 1) |-> Uninit] \o <<v>>

ReadCell(row, c) == IF c >= 1 /\ c <= Len(row) THEN row[c] ELSE Uninit

\* A variant of EncodeLevel whose reference level is the first one.
EncodeLevel_first(freq, v, k, dummy) ==
    IF v = freq[k][1] THEN 1
    ELSE IF ~dummy /\ v = freq[1][1] THEN 0 - 1
    ELSE 0

\* Step 5: the columns of one main effect for the value v of the variable:
\* the raw value of a direct effect; for a categorical effect one column for
\* each level but the last, in the order of the sorted frequency table.
EncodeLevel(freq, v, k, dummy) ==
    IF v = freq[k][1] THEN 1
    ELSE IF ~dummy /\ v = freq[Len(freq)][1] THEN 0 - 1
    ELSE 0

EncodeEffect(mod, freqs, j, v, dummy) ==
    IF mod.direct[j] = 1 THEN <<v>>
    ELSE [k \in 1..(Len(freqs[j]) - 1) |-> EncodeLevel(freqs[j], v, k, dummy)]

RECURSIVE EncodeMain(_, _, _, _, _)
EncodeMain(mod, freqs, xrow, j, dummy) ==
    IF j > Len(mod.iv) THEN <<>>
    ELSE EncodeEffect(mod, freqs, j, xrow[j], dummy)
         \o EncodeMain(mod, freqs, xrow, j + 1, dummy)

\* The intercept and the main-effect columns written into the row of X.
RECURSIVE WriteCells(_, _, _)
WriteCells(row, c, vals) ==
    IF vals = <<>> THEN row
    ELSE WriteCells(WriteCell(row, c, Head(vals)), c + 1, Tail(vals))

EncodeRow(mod, freqs, xrow, dummy, row) ==
    WriteCells(row, 1, <<1>> \o EncodeMain(mod, freqs, xrow, 1, dummy))

\* A variant of ResponseIndex that always answers the first level.
ResponseIndex_first(dvfreq, y) == 1

\* The position of the response value in the frequency table of the
\* dependent variable: the loop stops at the first match, or at J.
ResponseIndex(dvfreq, y) ==
    IF \E j \in 1..Len(dvfreq) : dvfreq[j][1] = y
    THEN CHOOSE j \in 1..Len(dvfreq) :
            /\ dvfreq[j][1] = y
            /\ \A h \in 1..(j - 1) : dvfreq[h][1] # y
    ELSE Len(dvfreq) + 1

\* The loop over the crosstab rows: a row of a new population codes its
\* covariates into X; every row stores its weight in Y and adds it to n.
RECURSIVE BuildLoop(_, _, _, _, _, _, _)
BuildLoop(mod, tabs, popindex, dummy, i, lastpop, d) ==
    IF i > Len(tabs.xtab) THEN d
    ELSE LET xrow == tabs.xtab[i]
             cols == Len(mod.iv) + 2
             xr   == popindex[i]
             X1   == IF popindex[i] # lastpop
                     THEN [d.X EXCEPT ![xr] = EncodeRow(mod, tabs.freqs, xrow, dummy, d.X[xr])]
                     ELSE d.X
             j    == ResponseIndex(tabs.freqs[Len(mod.iv) + 1], xrow[cols - 1])
             Y1   == [d.Y EXCEPT ![xr] = WriteCell(d.Y[xr], j, xrow[cols])]
             n1   == [d.n EXCEPT ![xr] = d.n[xr] + Y1[xr][j]]
         IN  BuildLoop(mod, tabs, popindex, dummy, i + 1, xr,
                       [X |-> X1, Y |-> Y1, n |-> n1])

\* The labels of the parameters: "Intercept", the name of each main effect
\* once for each of its columns, the name of each interaction once for each
\* column counted for it.
Copies(name, k) == [c \in 1..k |-> name]

RECURSIVE MainLabels(_, _, _)
MainLabels(mod, freqs, i) ==
    IF i > Len(mod.iv) THEN <<>>
    ELSE Copies(mod.ivnames[i], ColCount(mod, freqs, i)) \o MainLabels(mod, freqs, i + 1)

RECURSIVE IntLabels(_, _, _)
IntLabels(mod, freqs, i) ==
    IF i > Len(mod.ints) THEN <<>>
    ELSE Copies(mod.intnames[i], IntProduct(mod, freqs, mod.ints[i], 1))
         \o IntLabels(mod, freqs, i + 1)

Labels(mod, freqs) ==
    <<"Intercept">> \o MainLabels(mod, freqs, 1) \o IntLabels(mod, freqs, 1)

\* Step 6: the first column of each main effect in X and the number of
\* columns it occupies.
RECURSIVE StartCol(_, _, _)
StartCol(mod, freqs, i) ==
    IF i = 1 THEN 2
    ELSE StartCol(mod, freqs, i - 1) + ColCount(mod, freqs, i - 1)

\* The counter of the interaction columns: the index of the last term is
\* incremented first; an index past the columns of its term goes back to 1
\* and carries into the term before it.  q tells whether a column is left.
RECURSIVE NextIndex(_, _, _, _, _)
NextIndex(mod, freqs, terms, intcolidx, j) ==
    IF j = 0 THEN [intcolidx |-> intcolidx, q |-> FALSE]
    ELSE IF intcolidx[j] + 1 > ColCount(mod, freqs, terms[j])
         THEN NextIndex(mod, freqs, terms, [intcolidx EXCEPT ![j] = 1], j - 1)
         ELSE [intcolidx |-> [intcolidx EXCEPT ![j] = intcolidx[j] + 1], q |-> TRUE]

\* The product, for one population, of the columns the counter points at.
Times(x, y) == IF x = Uninit \/ y = Uninit THEN Uninit ELSE x * y

RECURSIVE IntTarget(_, _, _, _, _, _)
IntTarget(mod, freqs, terms, intcolidx, row, k) ==
    IF k > Len(terms) THEN 1
    ELSE Times(ReadCell(row, StartCol(mod, freqs, terms[k]) + intcolidx[k] - 1),
               IntTarget(mod, freqs, terms, intcolidx, row, k + 1))

\* The columns of one interaction: a column is written before the counter is
\* tested, so at least one column is written.  xc counts the columns of X
\* written so far.
RECURSIVE IntColumns(_, _, _, _, _, _)
IntColumns(mod, freqs, terms, intcolidx, X, xc) ==
    LET X1   == [j \in 1..Len(X) |->
                    WriteCell(X[j], xc + 1,
                              IntTarget(mod, freqs, terms, intcolidx, X[j], 1))]
        next == NextIndex(mod, freqs, terms, intcolidx, Len(terms))
    IN  IF next.q
        THEN IntColumns(mod, freqs, terms, next.intcolidx, X1, xc + 1)
        ELSE [X |-> X1, xc |-> xc + 1]

RECURSIVE Interactions(_, _, _, _, _)
Interactions(mod, freqs, i, X, xc) ==
    IF i > Len(mod.ints) THEN [X |-> X, xc |-> xc]
    ELSE LET one == IntColumns(mod, freqs, mod.ints[i],
                               [k \in 1..Len(mod.ints[i]) |-> 1], X, xc)
         IN  Interactions(mod, freqs, i + 1, one.X, one.xc)

\* Steps 2 to 6 of mlelr on the tables of tabulate.  M is the value read for
\* the weight of the first crosstab row plus the weights of the other rows.
Design(mod, tabs, dummy, M0) ==
    LET xtabcols == Len(mod.iv) + 2
        popindex == PopIndex(tabs.xtab, xtabcols)
        N        == popindex[Len(popindex)]
        J        == Len(tabs.freqs[Len(mod.iv) + 1])
        K        == DesignK(mod, tabs.freqs)
        alloc    == [X |-> [p \in 1..N |-> [c \in 1..K |-> Uninit]],
                     Y |-> [p \in 1..N |-> [c \in 1..J |-> 0]],
                     n |-> [p \in 1..N |-> 0]]
        built    == BuildLoop(mod, tabs, popindex, dummy, 1, 0, alloc)
        inter    == Interactions(mod, tabs.freqs, 1, built.X,
                                 1 + MainCols(mod, tabs.freqs, 1))
    IN  [N |-> N, M |-> M0 + SumWeights(tabs.xtab, xtabcols, 2),
         J |-> J, K |-> K, popindex |-> popindex,
         X |-> inter.X, Y |-> built.Y, n |-> built.n,
         Xlabels |-> Labels(mod, tabs.freqs), xc |-> inter.xc]

\* --------------------------------------------------- interface.c: options

\* A key or a value is the sequence of its characters.
KeyParams == <<"p", "a", "r", "a", "m", "s">>
ValDummy == <<"d", "u", "m", "m", "y">>
ValCenterpoint == <<"c", "e", "n", "t", "e", "r", "p", "o", "i", "n", "t">>

\* The null pointer: no string of characters.
NULL == <<"NULL">>

IsPrefix(p, k) == Len(p) <= Len(k) /\ \A i \in 1..Len(p) : p[i] = k[i]

\* The position of the first stored key that is a prefix of k
\* (strncmp over the length of the stored key), or 0.
OptionFind(opts, k) ==
    IF \E i \in 1..Len(opts) : IsPrefix(opts[i][1], k)
    THEN CHOOSE i \in 1..Len(opts) :
            /\ IsPrefix(opts[i][1], k)
            /\ \A h \in 1..(i - 1) : ~IsPrefix(opts[h][1], k)
    ELSE 0

\* get_option: the value of the entry found, or NULL.
get_option(opts, k) ==
    IF OptionFind(opts, k) = 0 THEN NULL ELSE opts[OptionFind(opts, k)][2]

\* set_option: a new entry at the end, or the value of the entry found.
set_option(opts, k, v) ==
    IF OptionFind(opts, k) = 0 THEN Append(opts, <<k, v>>)
    ELSE [opts EXCEPT ![OptionFind(opts, k)] = <<opts[OptionFind(opts, k)][1], v>>]

\* init_options: the only default is params = centerpoint.
init_options == set_option(<<>>, KeyParams, ValCenterpoint)

\* ------------------------------------------------------------------ state

VARIABLES
    dataset,    \* the input dataset: its observations and its weight variable
    options,    \* the option store
    mod,        \* the model descriptor handed to mlelr
    pc,         \* the position of the fit
    tabs,       \* mod->freqs and mod->xtab
    design,     \* N, M, J, K, popindex, X, Y, n, Xlabels of mlelr
    fit,        \* iter, convergence, nrret, beta, xtwx, loglike0 of mlelr,
                \* the number of calls of newton_raphson, and the report
    session,    \* the command loop of main: the dataspace, the last line
                \* read and what its command did
    call        \* the last call of a function examined on its own: its
                \* name, its arguments and what it returned or left behind

vars == <<dataset, options, mod, pc, tabs, design, fit, session, call>>

\* The descriptors cmd_logreg builds for the formulas
\*   y = a        y = direct.a        y = a b a*b        y = b direct.a b*a
Models ==
    { [dv |-> 3, dvname |-> "y", iv |-> <<1>>, ivnames |-> <<"a">>,
       direct |-> <<0>>, ints |-> <<>>, intnames |-> <<>>],
      [dv |-> 3, dvname |-> "y", iv |-> <<1>>, ivnames |-> <<"a">>,
       direct |-> <<1>>, ints |-> <<>>, intnames |-> <<>>],
      [dv |-> 3, dvname |-> "y", iv |-> <<1, 2>>, ivnames |-> <<"a", "b">>,
       direct |-> <<0, 0>>, ints |-> << <<1, 2>> >>, intnames |-> <<"a*b">>],
      [dv |-> 3, dvname |-> "y", iv |-> <<2, 1>>, ivnames |-> <<"b", "a">>,
       direct |-> <<0, 1>>, ints |-> << <<1, 2>> >>, intnames |-> <<"b*a">>] }

\* The digits of the constant 0xffefffffffffffff.
SysmisDigits == <<15, 15, 14, 15, 15, 15, 15, 15, 15, 15, 15, 15, 15, 15, 15, 15>>

\* The value of the first n digits of a hexadecimal constant.
RECURSIVE HexValue(_, _)
HexValue(digits, n) ==
    IF n = 0 THEN 0 ELSE 16 * HexValue(digits, n - 1) + digits[n]

\* const double SYSMIS = 0xffefffffffffffff: the constant is an integer and
\* is converted by value, to about 1.8e19.  Every value of a row is below
\* 2^52, so SYSMIS is held as its number of whole 2^52, the value of its
\* first three digits, which keeps its place among them.
SYSMIS == HexValue(SysmisDigits, 3)

\* Seed scenario 5 of the specification: two categorical variables with 3 and
\* 4 levels.  And a dataset imported from a file in which two fields of the
\* first variable are not numbers: import_dataset has stored SYSMIS there.
Scenarios ==
    { [obs |-> << <<0, 0, 0>>, <<1, 1, 1>>, <<2, 2, 0>>, <<0, 3, 1>> >>, weight |-> 0],
      [obs |-> << <<SYSMIS, 1, 0>>, <<0, 1, 1>>, <<1, 2, 1>>, <<SYSMIS, 2, 1>> >>,
       weight |-> 0] }

NoTabs == [freqs |-> <<>>, xtab |-> <<>>]

NoDesign == [N |-> 0, M |-> 0, J |-> 0, K |-> 0, popindex |-> <<>>,
             X |-> <<>>, Y |-> <<>>, n |-> <<>>, Xlabels |-> <<>>, xc |-> 0]

\* Nothing printed yet.
NoReport == [iterations |-> 0, convergence |-> "", fit_tests |-> FALSE,
             params |-> <<>>]

\* The command loop before main has started it.
NoSession == [dataspace |-> <<>>, lines |-> 0, line |-> <<>>, retval |-> 0,
              status |-> "none", log |-> {}, did |-> {}, keys |-> {}]

\* No function has been called on its own.
NoCall == [name |-> "none"]

\* The locals of mlelr before step 7: nrret, xtwx and loglike0 hold no value.
\* held are the buffers mlelr has allocated and not freed, scratch those of
\* newton_raphson.
NoFit == [iter |-> 0, convergence |-> FALSE, nrret |-> Uninit, beta |-> <<>>,
          xtwx |-> "unset", loglike0 |-> "unset", calls |-> 0,
          report |-> NoReport, held |-> {}, scratch |-> {}]

\* The buffers mlelr allocates in steps 2 to 5, those it allocates in step 7,
\* and the local memory of newton_raphson.
DesignBuffers == {"popindex", "X", "Y", "n", "startcol", "colspan",
                  "intcolidx", "Xlabels"}
FitBuffers == {"beta", "beta0", "beta_inf", "xtwx", "sigprms", "stderrs",
               "wald", "loglike", "deviance"}
ScratchBuffers == {"pi", "numer", "g", "H"}

\* A dataset of at most MaxObs observations, weighted by b or unweighted; the
\* options as init_options leaves them or after "option params dummy"; a
\* model accepted by cmd_logreg.
Init ==
    /\ dataset \in [obs : SeqsUpTo(Rows, MaxObs), weight : {0, 2}] \cup Scenarios
    /\ options \in {init_options, set_option(init_options, KeyParams, ValDummy)}
    /\ mod \in Models
    /\ pc = "start"
    /\ tabs = NoTabs
    /\ design = NoDesign
    /\ fit = NoFit
    /\ session = NoSession
    /\ call = NoCall

\* mlelr, step 1: the call of tabulate.
Tabulate ==
    /\ pc = "start"
    /\ tabs' = tabulate(dataset, mod)
    /\ pc' = "tabulated"
    /\ UNCHANGED <<dataset, options, mod, design, fit, session, call>>

\* Dummy coding is chosen when the option params holds "dummy".
Dummy(opts) == get_option(opts, KeyParams) = ValDummy

\* More columns of X written than the K columns allocated for each row.
Overflow(d) == d.xc > d.K

\* mlelr, steps 2 to 6.  With an empty crosstab the weight of the first row is
\* read through a pointer that was never set: the read ends the process or
\* yields some value.  A negative K makes the allocation of a row of X fail,
\* which ends the process.  A write past the end of a row may end the process.
BuildDesign ==
    /\ pc = "tabulated"
    /\ \E garbage \in 0..1, crash \in BOOLEAN :
         LET empty == Len(tabs.xtab) = 0
             M0    == IF empty THEN garbage ELSE tabs.xtab[1][Len(mod.iv) + 2]
             d     == Design(mod, tabs, Dummy(options), M0)
         IN  /\ ~empty => garbage = 0
             /\ crash => empty \/ (d.K >= 0 /\ Overflow(d))
             /\ IF crash THEN pc' = "crashed" /\ design' = design /\ fit' = fit
                ELSE IF d.K < 0
                THEN pc' = "fatal" /\ design' = design /\ fit' = fit
                ELSE /\ pc' = "built"
                     /\ design' = d
                     /\ fit' = [fit EXCEPT !.held = DesignBuffers]
    /\ UNCHANGED <<dataset, options, mod, tabs, session, call>>

Next == Tabulate \/ BuildDesign

Spec == Init /\ [][Next]_vars

\* ------------------------------------- mlelr.c: the Newton-Raphson loop

\* The iteration limit of the loop.
MAX_ITER == 30

\* 1 / EPSILON, the relative tolerance of the convergence test being 1e-8.
EPSILON_INV == 100000000

\* The values a parameter takes in the model: the starting value, a value
\* far from it, and a value within the tolerance of the latter.
BetaVals == {0, EPSILON_INV, EPSILON_INV + 1}

Abs(x) == IF x < 0 THEN 0 - x ELSE x

\* fabs(b - b0) > EPSILON * fabs(b0); on integers the left side is an integer,
\* so it exceeds fabs(b0) / 1e8 exactly when it exceeds the integer part.
Exceeds(b, b0) == Abs(b - b0) > Abs(b0) \div EPSILON_INV

\* The test for convergence: no parameter moved by more than the tolerance.
Converged(beta, beta0) ==
    \A i \in 1..Len(beta) : ~Exceeds(beta[i], beta0[i])

\* The outcomes of one call of newton_raphson on order = K * (J - 1)
\* parameters.  The numbers are not computed: cholesky fails or not on the
\* Hessian of the data, and a successful step leaves any parameter vector.
\* After a successful cholesky every diagonal entry is a positive square
\* root, so backsub succeeds; trimult always returns 0.  A failed step
\* returns before beta1 and xtwx are written.  With order = 0 cholesky
\* returns 0 and backsub reads x[0][0] of a matrix without rows: the read
\* ends the process or yields some value, zero or not.
newton_raphson(order, beta0, beta1, xtwx) ==
    IF order = 0
    THEN {[crash |-> c, ret |-> r, beta1 |-> beta1, xtwx |-> xtwx] :
             c \in BOOLEAN, r \in {0, 12}}
    ELSE {[crash |-> FALSE, ret |-> 11, beta1 |-> beta1, xtwx |-> xtwx]}
         \cup {[crash |-> FALSE, ret |-> 0, beta1 |-> b, xtwx |-> "inverse"] :
                  b \in [1..order -> BetaVals]}

\* A variant of LoopGuard that allows one more turn.
LoopGuard_more(iter, convergence) == iter <= MAX_ITER /\ ~convergence

\* The condition of the main N-R loop.
LoopGuard(iter, convergence) == iter < MAX_ITER /\ ~convergence

\* mlelr, step 7 up to the loop: the allocations and the starting values.  A
\* negative size makes emalloc fail, which ends the process; malloc(0) may
\* return NULL, which ends it as well.
NRStart ==
    /\ pc = "built"
    /\ \E null \in BOOLEAN :
         LET order == design.K * (design.J - 1)
         IN  /\ null => order = 0
             /\ IF order < 0 \/ null
                THEN pc' = "fatal" /\ fit' = fit
                ELSE /\ pc' = "loop"
                     /\ fit' = [NoFit EXCEPT
                                  !.beta = [i \in 1..order |-> 0],
                                  !.held = fit.held \cup FitBuffers]
    /\ UNCHANGED <<dataset, options, mod, tabs, design, session, call>>

\* One turn of the main N-R loop: beta0 is saved, newton_raphson is called
\* and its result stored in nrret, the convergence test is made on beta and
\* beta0, the first log likelihood is recorded, iter is incremented.
\* newton_raphson frees its local memory before "return 0" only.
NRIterate ==
    /\ pc = "loop"
    /\ LoopGuard(fit.iter, fit.convergence)
    /\ LET beta0 == fit.beta
       IN  \E r \in newton_raphson(design.K * (design.J - 1), beta0,
                                   fit.beta, fit.xtwx) :
             IF r.crash
             THEN pc' = "crashed" /\ fit' = [fit EXCEPT !.calls = @ + 1]
             ELSE /\ pc' = "loop"
                  /\ fit' = [fit EXCEPT
                               !.nrret = r.ret,
                               !.beta = r.beta1,
                               !.xtwx = r.xtwx,
                               !.convergence = Converged(r.beta1, beta0),
                               !.loglike0 = IF fit.iter = 0 THEN "first" ELSE @,
                               !.iter = @ + 1,
                               !.calls = @ + 1,
                               !.scratch = IF r.ret = 0 THEN @
                                           ELSE @ \cup ScratchBuffers]
    /\ UNCHANGED <<dataset, options, mod, tabs, design, session, call>>

\* The standard error printed for a parameter: computed from xtwx when the
\* fit converged and xtwx was written, otherwise whatever the array holds.
StdErr(convergence, xtwx) ==
    IF convergence /\ xtwx = "inverse" THEN "computed" ELSE "uninit"

\* The rows of the parameter table: for each column i of X and each response
\* level j but the last, the label, j and beta[j*K+i].
ParamRows(d, f) ==
    IF d.J < 2 THEN <<>>
    ELSE [q \in 1..(d.K * (d.J - 1)) |->
            LET i == (q - 1) \div (d.J - 1)
                j == (q - 1) % (d.J - 1)
            IN  [label |-> d.Xlabels[i + 1], dv |-> j,
                 estimate |-> f.beta[j * d.K + i + 1],
                 stderr |-> StdErr(f.convergence, f.xtwx)]]

\* mlelr after the loop: the significance tests and the report.  The fit
\* tests are printed when convergence is 1; the parameter table is printed
\* in every case.  mlelr returns without a call of free.
Report ==
    /\ pc = "loop"
    /\ ~LoopGuard(fit.iter, fit.convergence)
    /\ fit' = [fit EXCEPT !.report =
                 [iterations |-> fit.iter,
                  convergence |-> IF fit.convergence THEN "YES" ELSE "NO",
                  fit_tests |-> fit.convergence,
                  params |-> ParamRows(design, fit)]]
    /\ pc' = "done"
    /\ UNCHANGED <<dataset, options, mod, tabs, design, session, call>>

\* The models y = a and y = direct.a.
ModelA == [dv |-> 3, dvname |-> "y", iv |-> <<1>>, ivnames |-> <<"a">>,
           direct |-> <<0>>, ints |-> <<>>, intnames |-> <<>>]
ModelDirectA == [dv |-> 3, dvname |-> "y", iv |-> <<1>>, ivnames |-> <<"a">>,
                 direct |-> <<1>>, ints |-> <<>>, intnames |-> <<>>]

\* The fits of the Newton-Raphson specification: a 2 by 2 table weighted by b
\* (seed scenario 1), a perfectly separating covariate, a constant covariate,
\* a response with three levels on a covariate with one level, a response
\* with one level, no observation.
Fits ==
    { << [obs |-> << <<0, 40, 0>>, <<0, 10, 1>>, <<1, 20, 0>>, <<1, 30, 1>> >>,
          weight |-> 2], ModelA >>,
      << [obs |-> << <<0, 40, 0>>, <<0, 10, 1>>, <<1, 20, 0>>, <<1, 30, 1>> >>,
          weight |-> 2], ModelDirectA >>,
      << [obs |-> << <<0, 10, 0>>, <<1, 10, 1>> >>, weight |-> 2], ModelA >>,
      << [obs |-> << <<1, 2, 0>>, <<1, 2, 1>> >>, weight |-> 2], ModelDirectA >>,
      << [obs |-> << <<1, 2, 0>>, <<1, 2, 1>> >>, weight |-> 2], ModelA >>,
      << [obs |-> << <<1, 1, 0>>, <<1, 1, 1>>, <<1, 1, 2>> >>, weight |-> 0],
         ModelA >>,
      << [obs |-> << <<0, 1, 0>>, <<1, 1, 0>> >>, weight |-> 0], ModelA >>,
      << [obs |-> <<>>, weight |-> 0], ModelDirectA >> }

InitNR ==
    /\ \E f \in Fits : dataset = f[1] /\ mod = f[2]
    /\ options \in {init_options, set_option(init_options, KeyParams, ValDummy)}
    /\ pc = "start"
    /\ tabs = NoTabs
    /\ design = NoDesign
    /\ fit = NoFit
    /\ session = NoSession
    /\ call = NoCall

NextNR == Tabulate \/ BuildDesign \/ NRStart \/ NRIterate \/ Report

SpecNR == InitNR /\ [][NextNR]_vars

\* mlelr runs to its end once called: no step of it waits for anything.
SpecNRFair == InitNR /\ [][NextNR]_vars /\ WF_vars(NextNR)

\* ------------------------------------------------- model.c: the model

\* Names, option keys and the tokens of a command line are sequences of
\* characters; strcmp is the equality of sequences.
NameA == <<"a">>
NameB == <<"b">>
NameY == <<"y">>
NameZ == <<"z", "z">>

\* The variable names of an imported dataset, by position.
VarNameSeqs == <<NameA, NameB, NameY>>

\* init_model: no main effect and no interaction; dv and dvname are not set.
init_model == [dv |-> Uninit, dvname |-> <<>>, iv |-> <<>>, ivnames |-> <<>>,
               direct |-> <<>>, ints |-> <<>>, intnames |-> <<>>]

\* A variant of the search of the main effects that finds nothing.
FindIv_none(m, varidx) == 0

\* A variant of find_varname that takes every name for the first variable.
find_varname_first(varnames, varname) == 1

\* find_varname: the position of the first variable of that name, or 0
\* (C: -1).
find_varname(varnames, varname) ==
    IF \E i \in 1..Len(varnames) : varnames[i] = varname
    THEN CHOOSE i \in 1..Len(varnames) :
            /\ varnames[i] = varname
            /\ \A h \in 1..(i - 1) : varnames[h] # varname
    ELSE 0

\* The search of the array of main effects: the position found, or 0.
FindIv(m, varidx) ==
    IF \E i \in 1..Len(m.iv) : m.iv[i] = varidx
    THEN CHOOSE i \in 1..Len(m.iv) :
            /\ m.iv[i] = varidx
            /\ \A h \in 1..(i - 1) : m.iv[h] # varidx
    ELSE 0

\* enum model_variable.
VarTypes == {"DEPENDENT", "MAIN", "DIRECT", "NEW_INTERACTION", "INTERACTION"}

\* The values the local ividx may hold when the search did not set it: a
\* position of the main-effect list or a position outside it.
GarbageIdx == 0..Len(VarNameSeqs)

\* The variable appended as a main effect, direct only for DIRECT.
AppendIv(m, varidx, varname, vartype) ==
    [m EXCEPT !.iv = Append(@, varidx),
              !.ivnames = Append(@, varname),
              !.direct = Append(@, IF vartype = "DIRECT" THEN 1 ELSE 0)]

\* add_model_variable.  ividx is assigned only when the variable is found
\* among the main effects; when the variable is appended instead, the
\* interaction code reads ividx unset, and garbage[numiv] is what it reads
\* (numiv counted after the append).  INTERACTION is the last case: it
\* appends to the latest interaction, which cmd_logreg has always created.
add_model_variable(m, varnames, varname, vartype, garbage) ==
    LET varidx == find_varname(varnames, varname)
        at     == FindIv(m, varidx)
        found  == at # 0
        m1     == IF found THEN m ELSE AppendIv(m, varidx, varname, vartype)
        ividx  == IF found THEN at ELSE garbage[Len(m1.iv)]
        last   == Len(m1.ints)
    IN  IF vartype \notin VarTypes THEN [ret |-> 1, mod |-> m, warned |-> FALSE]
        ELSE IF varidx = 0 THEN [ret |-> 1, mod |-> m, warned |-> FALSE]
        ELSE IF vartype = "DEPENDENT"
        THEN [ret |-> 0, mod |-> [m EXCEPT !.dv = varidx, !.dvname = varname],
              warned |-> FALSE]
        ELSE IF found /\ vartype \in {"MAIN", "DIRECT"}
        THEN [ret |-> 0, mod |-> m, warned |-> TRUE]
        ELSE IF vartype \in {"MAIN", "DIRECT"}
        THEN [ret |-> 0, mod |-> m1, warned |-> FALSE]
        ELSE IF vartype = "NEW_INTERACTION"
        THEN [ret |-> 0,
              mod |-> [m1 EXCEPT !.ints = Append(@, <<ividx>>),
                                 !.intnames = Append(@, varname)],
              warned |-> ~found]
        ELSE IF \E i \in 1..Len(m1.ints[last]) : m1.ints[last][i] = ividx
        THEN [ret |-> 0, mod |-> m1, warned |-> TRUE]
        ELSE [ret |-> 0,
              mod |-> [m1 EXCEPT
                         !.ints[last] = Append(@, ividx),
                         !.intnames[last] = @ \o <<"*">> \o varname],
              warned |-> ~found]

\* --------------------------------------------- interface.c: cmd_logreg

\* strchr(tok, '*'): the position of the first asterisk, or 0.
FirstStar(tok) ==
    IF \E i \in 1..Len(tok) : tok[i] = "*"
    THEN CHOOSE i \in 1..Len(tok) :
            tok[i] = "*" /\ \A h \in 1..(i - 1) : tok[h] # "*"
    ELSE 0

\* The strings the while loop of cmd_logreg visits in an effect token: the
\* text up to each asterisk, and the text after the last one.
RECURSIVE Components(_)
Components(tok) ==
    IF FirstStar(tok) = 0 THEN <<tok>>
    ELSE <<SubSeq(tok, 1, FirstStar(tok) - 1)>>
         \o Components(SubSeq(tok, FirstStar(tok) + 1, Len(tok)))

\* The loop over the components from the k-th on: a component that compares
\* equal to csvfield(i), which after the first cut is the first component,
\* is registered with NEW_INTERACTION, any other with INTERACTION; the loop
\* breaks at the first failure.
RECURSIVE AddComponents(_, _, _, _, _)
AddComponents(m, varnames, comps, k, garbage) ==
    IF k > Len(comps) THEN [ret |-> 0, mod |-> m]
    ELSE LET vartype == IF comps[k] = comps[1] THEN "NEW_INTERACTION"
                        ELSE "INTERACTION"
             r == add_model_variable(m, varnames, comps[k], vartype, garbage)
         IN  IF r.ret # 0 THEN [ret |-> r.ret, mod |-> r.mod]
             ELSE AddComponents(r.mod, varnames, comps, k + 1, garbage)

DirectPrefix == <<"d", "i", "r", "e", "c", "t", ".">>

\* A token of at least 8 characters that starts with "direct.".
IsDirect(tok) == Len(tok) >= 8 /\ SubSeq(tok, 1, 7) = DirectPrefix

\* One effect token: an interaction, a direct effect, or a categorical main
\* effect.
AddEffect(m, varnames, tok, garbage) ==
    IF FirstStar(tok) # 0
    THEN AddComponents(m, varnames, Components(tok), 1, garbage)
    ELSE IF IsDirect(tok)
    THEN LET r == add_model_variable(m, varnames, SubSeq(tok, 8, Len(tok)),
                                     "DIRECT", garbage)
         IN  [ret |-> r.ret, mod |-> r.mod]
    ELSE LET r == add_model_variable(m, varnames, tok, "MAIN", garbage)
         IN  [ret |-> r.ret, mod |-> r.mod]

\* The loop over the fields from csvfield(4) on, left at the first failure.
RECURSIVE AddEffects(_, _, _, _, _)
AddEffects(m, varnames, fields, i, garbage) ==
    IF i > Len(fields) THEN [ret |-> 0, mod |-> m]
    ELSE LET r == AddEffect(m, varnames, fields[i], garbage)
         IN  IF r.ret # 0 THEN r
             ELSE AddEffects(r.mod, varnames, fields, i + 1, garbage)

\* find_dataset: the position in the dataspace of the first dataset with
\* that handle, or 0 (C: NULL).
find_dataset(dataspace, handle) ==
    IF \E i \in 1..Len(dataspace) : dataspace[i].handle = handle
    THEN CHOOSE i \in 1..Len(dataspace) :
            /\ dataspace[i].handle = handle
            /\ \A h \in 1..(i - 1) : dataspace[h].handle # handle
    ELSE 0

\* cmd_logreg up to the call of mlelr: what is logged, whether mlelr is
\* called, and with which dataset and model.  fields[1] is "logreg".
ParseLogreg(fields, dataspace, garbage) ==
    LET at  == find_dataset(dataspace, fields[2])
        ds  == dataspace[at]
        dep == add_model_variable(init_model, ds.varnames, fields[3],
                                  "DEPENDENT", garbage)
        eff == AddEffects(dep.mod, ds.varnames, fields, 5, garbage)
    IN  IF Len(fields) < 5 \/ fields[4] # <<"=">>
        THEN [log |-> {"syntax error"}, call |-> FALSE, ds |-> 0,
              mod |-> init_model]
        ELSE IF at = 0
        THEN [log |-> {"dataset not found"}, call |-> FALSE, ds |-> 0,
              mod |-> init_model]
        ELSE IF dep.ret # 0
        THEN [log |-> {"dependent variable not found"}, call |-> FALSE,
              ds |-> at, mod |-> dep.mod]
        ELSE IF eff.ret # 0
        THEN [log |-> {"syntax error"}, call |-> FALSE, ds |-> at,
              mod |-> eff.mod]
        ELSE [log |-> {}, call |-> TRUE, ds |-> at, mod |-> eff.mod]

\* ------------------------------------------- interface.c: the commands

\* The names of cmds[], character by character.
WordImport == <<"i", "m", "p", "o", "r", "t">>
WordPrint == <<"p", "r", "i", "n", "t">>
WordTable == <<"t", "a", "b", "l", "e">>
WordLogreg == <<"l", "o", "g", "r", "e", "g">>
WordWeight == <<"w", "e", "i", "g", "h", "t">>
WordOption == <<"o", "p", "t", "i", "o", "n">>
WordHelp == <<"h", "e", "l", "p">>
WordQ == <<"q">>
WordQuit == <<"q", "u", "i", "t">>
WordComment == <<"#">>

\* The texts the lines of the command input are made of.
Equals == <<"=">>
Comma == <<",">>
HandleD == <<"d">>
HandleE == <<"e">>
Zero == <<"0">>
Nine == <<"9">>
Extra == <<"x">>
KeyParamsX == KeyParams \o <<"x">>
TokAB == <<"a", "*", "b">>
TokABA == <<"a", "*", "b", "*", "a">>
TokAZ == <<"a", "*", "z", "z">>
TokDirectA == DirectPrefix \o NameA
TokDirectZ == DirectPrefix \o NameZ

\* The files import can be asked for, by name.  A file that opens holds its
\* lines as csvgetline and split deliver them: the first line holds the
\* variable names, a later line the numbers of one observation.  What split
\* makes of a line depends on the separator and on the bytes that follow it in
\* memory (strcspn is handed the address of a single character), so the lines
\* are taken as delivered.
FileGood == <<"g">>
FileShort == <<"s">>
FileHeader == <<"h">>
FileEmpty == <<"0">>
FileMissing == <<"m">>
FileBlank == <<"b">>

FileSystem(filename) ==
    IF filename = FileGood
    THEN [opens |-> TRUE,
          lines |-> <<VarNameSeqs, <<0, 1, 0>>, <<1, 1, 1>>, <<0, 2, 1>>, <<1, 2, 0>> >>]
    ELSE IF filename = FileShort
    THEN [opens |-> TRUE,
          lines |-> <<VarNameSeqs, <<0, 1, 0>>, <<1, 1>>, <<1, 2, 1>> >>]
    ELSE IF filename = FileHeader
    THEN [opens |-> TRUE, lines |-> <<VarNameSeqs>>]
    ELSE IF filename = FileEmpty
    THEN [opens |-> TRUE, lines |-> <<>>]
    ELSE IF filename = FileBlank
    THEN [opens |-> TRUE, lines |-> << <<>>, <<0, 1, 0>> >>]
    ELSE [opens |-> FALSE, lines |-> <<>>]

\* add_dataset for a public dataset: a new last entry of the dataspace, with
\* no observation and no weight variable.
add_dataset(dataspace, handle, varnames) ==
    Append(dataspace, [handle |-> handle, varnames |-> varnames, obs |-> <<>>,
                       weight |-> 0])

\* The loop of import_dataset over the data lines from the i-th on, for the
\* dataset at the end of the dataspace: a line with another number of fields
\* than nvars ends the import with -1, the observations before it staying in
\* the dataset.
RECURSIVE ImportRows(_, _, _)
ImportRows(dataspace, lines, i) ==
    LET at == Len(dataspace)
    IN  IF i > Len(lines)
        THEN [ret |-> 0, dataspace |-> dataspace, log |-> {"import complete"}]
        ELSE IF Len(lines[i]) # Len(dataspace[at].varnames)
        THEN [ret |-> 0 - 1, dataspace |-> dataspace,
              log |-> {"invalid field count"}]
        ELSE ImportRows([dataspace EXCEPT ![at].obs = Append(@, lines[i])],
                        lines, i + 1)

\* import_dataset, for the lines csvgetline delivers before it returns NULL.
import_dataset(dataspace, handle, file, lines) ==
    IF ~file.opens
    THEN [ret |-> 0 - 1, dataspace |-> dataspace, log |-> {"could not open file"}]
    ELSE IF Len(lines) = 0
    THEN [ret |-> 0 - 1, dataspace |-> dataspace, log |-> {"file is empty"}]
    ELSE IF Len(lines[1]) < 1
    THEN [ret |-> 0 - 1, dataspace |-> dataspace,
          log |-> {"no variable names found"}]
    ELSE ImportRows(add_dataset(dataspace, handle, lines[1]), lines, 2)

\* set_weight_variable: var is a position among the variables, or beyond them.
set_weight_variable(ds, var) ==
    IF var <= Len(ds.varnames) THEN [ds EXCEPT !.weight = var]
    ELSE [ds EXCEPT !.weight = 0]

\* atoi, for a field of digits (0 for a field that starts with none).
DigitVal(c) ==
    CASE c = "0" -> 0 [] c = "1" -> 1 [] c = "2" -> 2 [] c = "3" -> 3
      [] c = "4" -> 4 [] c = "5" -> 5 [] c = "6" -> 6 [] c = "7" -> 7
      [] c = "8" -> 8 [] c = "9" -> 9 [] OTHER -> 0 - 1

RECURSIVE AtoiFrom(_, _, _)
AtoiFrom(field, i, acc) ==
    IF i > Len(field) \/ DigitVal(field[i]) < 0 THEN acc
    ELSE AtoiFrom(field, i + 1, 10 * acc + DigitVal(field[i]))

atoi(field) == AtoiFrom(field, 1, 0)

\* Some term of some interaction is no position of the main-effect list.
BadTerms(m) ==
    \E i \in 1..Len(m.ints) : \E t \in 1..Len(m.ints[i]) :
        m.ints[i][t] \notin 1..Len(m.iv)

\* The ways one call of mlelr ends, with the tables and the design it built:
\* "done" when it returned, "fatal" when an allocation failed and eprintf
\* ended the process, "crashed" when a read or write outside an array ended
\* it.  An interaction term outside the main-effect list makes mlelr index
\* mod->direct and the frequency tables out of bounds; what follows is not
\* determined.  A design with K * (J - 1) = 0 parameters makes the
\* allocations of step 7 ask for 0 bytes and newton_raphson read a matrix
\* without rows.
mlelr(ds, m, opts) ==
    LET t     == tabulate(ds, m)
        empty == Len(t.xtab) = 0
        M0s   == IF empty THEN 0..1 ELSE {t.xtab[1][Len(m.iv) + 2]}
        d(M0) == Design(m, t, Dummy(opts), M0)
        order(M0) == d(M0).K * (d(M0).J - 1)
    IN  IF BadTerms(m)
        THEN {[pc |-> e, tabs |-> t, design |-> NoDesign] :
                 e \in {"crashed", "fatal", "done"}}
        ELSE {[pc |-> "crashed", tabs |-> t, design |-> NoDesign] :
                 M0 \in {g \in M0s : empty \/ (d(g).K >= 0 /\ Overflow(d(g)))}}
             \cup {[pc |-> "fatal", tabs |-> t, design |-> NoDesign] :
                      M0 \in {g \in M0s : d(g).K < 0}}
             \cup {[pc |-> "fatal", tabs |-> t, design |-> d(M0)] :
                      M0 \in {g \in M0s : d(g).K >= 0 /\ order(g) <= 0}}
             \cup {[pc |-> "crashed", tabs |-> t, design |-> d(M0)] :
                      M0 \in {g \in M0s : d(g).K >= 0 /\ order(g) = 0}}
             \cup {[pc |-> "done", tabs |-> t, design |-> d(M0)] :
                      M0 \in {g \in M0s : d(g).K >= 0 /\ order(g) >= 0}}

\* --------------------------------------------- main.c: the command loop

\* The number of lines read from the command input in one run.
MaxLines == 3

\* The lines of the command input, each as the fields csvgetline and split
\* deliver for it.
Lines ==
    { <<>>,
      <<Extra>>,
      <<WordQ>>, <<WordQuit>>, <<WordHelp>>, <<WordComment, Extra>>,
      <<WordImport, HandleD, FileGood, Comma>>,
      <<WordImport, HandleD, FileGood>>,
      <<WordImport, HandleD, FileShort, Comma>>,
      <<WordImport, HandleD, FileHeader, Comma>>,
      <<WordImport, HandleD, FileEmpty, Comma>>,
      <<WordImport, HandleD, FileMissing, Comma>>,
      <<WordPrint, HandleD, Zero>>,
      <<WordPrint, HandleD, Nine>>,
      <<WordPrint, HandleD>>,
      <<WordPrint, HandleD, Zero, Extra>>,
      <<WordPrint, HandleE, Zero>>,
      <<WordWeight, HandleD, NameB>>,
      <<WordWeight, HandleD>>,
      <<WordWeight, HandleD, NameB, Extra>>,
      <<WordWeight, HandleD, NameZ>>,
      <<WordWeight, HandleE, NameB>>,
      <<WordTable, HandleD, NameA>>,
      <<WordTable, HandleD>>,
      <<WordTable, HandleD, NameA, Extra>>,
      <<WordTable, HandleD, NameZ>>,
      <<WordOption, KeyParams, ValDummy>>,
      <<WordOption, KeyParams, ValCenterpoint>>,
      <<WordOption, KeyParamsX, ValDummy>>,
      <<WordOption, KeyParams>>,
      <<WordOption>>,
      <<WordOption, KeyParams, ValDummy, Extra>>,
      <<WordLogreg, HandleD, NameY, Equals, NameA>>,
      <<WordLogreg, HandleD, NameY, Equals, NameA, NameA>>,
      <<WordLogreg, HandleD, NameY, Equals, TokDirectA>>,
      <<WordLogreg, HandleD, NameY, Equals, TokAB>>,
      <<WordLogreg, HandleD, NameY, Equals, NameB, TokAB>>,
      <<WordLogreg, HandleD, NameY, Equals, NameA, NameB, TokAB>>,
      <<WordLogreg, HandleD, NameY, Equals, NameA, NameB, TokABA>>,
      <<WordLogreg, HandleD, NameY, Equals, NameZ>>,
      <<WordLogreg, HandleD, NameY, Equals, NameA, TokDirectZ>>,
      <<WordLogreg, HandleD, NameY, Equals, NameA, TokAZ>>,
      <<WordLogreg, HandleD, NameZ, Equals, NameA>>,
      <<WordLogreg, HandleE, NameY, Equals, NameA>>,
      <<WordLogreg, HandleD, NameY, NameA>>,
      <<WordLogreg, HandleD, NameY, NameA, NameB>> }

\* The values an uninitialised ividx may hold, one for each size of the
\* main-effect list at the moment it is read.
Garbages == [1..Len(VarNameSeqs) -> GarbageIdx]

\* csvfield(n) for the n-th field counted from 1; a field that is not there
\* is the null pointer.
csvfield(fields, n) == IF n <= Len(fields) THEN fields[n] ELSE NULL

\* What a handler goes on with when the read of a null pointer did not end
\* the process: no character.
Str(field) == IF field = NULL THEN <<>> ELSE field

\* The state of the session after a line: the line count, the fields of the
\* line, the value input_handler returned for it, how the process stands
\* ("reading": main calls input_handler again, "ended": main returned 0,
\* "exited": exit(2) after a diagnostic, "crashed": ended by a signal), what
\* the command logged and what it did, and the keys set_option was called
\* with since the start.
Entry(fields, dataspace, retval, status, log, did) ==
    [dataspace |-> dataspace, lines |-> session.lines + 1, line |-> fields,
     retval |-> retval, status |-> status, log |-> log, did |-> did,
     keys |-> session.keys \cup IF "option" \in did THEN {Str(csvfield(fields, 2))}
                                ELSE {}]

\* main calls input_handler while retval is 0.
Reading == session.status = "reading" /\ session.lines < MaxLines

\* The strcmp of input_handler on the first word.
Command(fields, word) == Len(fields) > 0 /\ fields[1] = word

\* The state of a run after init_dataspace and init_options.
InitCmd ==
    /\ dataset = [obs |-> <<>>, weight |-> 0]
    /\ options = init_options
    /\ mod = init_model
    /\ pc = "idle"
    /\ tabs = NoTabs
    /\ design = NoDesign
    /\ fit = NoFit
    /\ session = [NoSession EXCEPT !.status = "reading"]
    /\ call = NoCall

\* input_handler: csvgetline returns NULL at the end of the input.
EndOfInput ==
    /\ session.status = "reading"
    /\ session' = [session EXCEPT !.line = <<>>, !.retval = 1,
                                  !.status = "ended", !.log = {},
                                  !.did = {"end of input"}]
    /\ UNCHANGED <<dataset, options, mod, pc, tabs, design, fit, call>>

\* input_handler: csvgetline returns NULL because malloc or realloc failed
\* for its buffers; input_handler does not tell this from the end of input.
CsvgetlineFails ==
    /\ Reading
    /\ session' = Entry(<<>>, session.dataspace, 1, "ended", {},
                        {"allocation failed"})
    /\ UNCHANGED <<dataset, options, mod, pc, tabs, design, fit, call>>

\* emalloc, erealloc or estrdup fails in a command that allocates: eprintf
\* prints the diagnostic and calls exit(2).
EmallocFails ==
    /\ Reading
    /\ \E fields \in Lines :
         /\ Len(fields) > 0
         /\ fields[1] \in {WordImport, WordPrint, WordWeight, WordTable,
                           WordLogreg, WordOption}
         /\ session' = Entry(fields, session.dataspace, 0, "exited",
                             {"fatal error"}, {"allocation failed"})
    /\ UNCHANGED <<dataset, options, mod, pc, tabs, design, fit, call>>

\* input_handler: a line without fields.
BlankLine ==
    /\ Reading
    /\ session' = Entry(<<>>, session.dataspace, 0, "reading", {}, {})
    /\ UNCHANGED <<dataset, options, mod, pc, tabs, design, fit, call>>

\* input_handler: a first word that is no name of cmds[].
CommandNotFound ==
    /\ Reading
    /\ \E fields \in Lines :
         /\ Len(fields) > 0
         /\ fields[1] \notin {WordImport, WordPrint, WordTable, WordLogreg,
                              WordWeight, WordOption, WordHelp, WordQ,
                              WordQuit, WordComment}
         /\ session' = Entry(fields, session.dataspace, 0, "reading",
                             {"command not found"}, {})
    /\ UNCHANGED <<dataset, options, mod, pc, tabs, design, fit, call>>

cmd_quit ==
    /\ Reading
    /\ \E fields \in Lines :
         /\ Command(fields, WordQ) \/ Command(fields, WordQuit)
         /\ session' = Entry(fields, session.dataspace, 1, "ended",
                             {"bye"}, {"quit"})
    /\ UNCHANGED <<dataset, options, mod, pc, tabs, design, fit, call>>

cmd_comment ==
    /\ Reading
    /\ \E fields \in Lines :
         /\ Command(fields, WordComment)
         /\ session' = Entry(fields, session.dataspace, 0, "reading", {}, {})
    /\ UNCHANGED <<dataset, options, mod, pc, tabs, design, fit, call>>

cmd_help ==
    /\ Reading
    /\ \E fields \in Lines :
         /\ Command(fields, WordHelp)
         /\ session' = Entry(fields, session.dataspace, 0, "reading", {},
                             {"help"})
    /\ UNCHANGED <<dataset, options, mod, pc, tabs, design, fit, call>>

\* cmd_import: returns after the syntax error.  The data lines are read by
\* csvgetline, whose NULL after a failed allocation import_dataset takes for
\* the end of the file.
cmd_import ==
    /\ Reading
    /\ \E fields \in Lines :
         /\ Command(fields, WordImport)
         /\ IF Len(fields) # 4
            THEN session' = Entry(fields, session.dataspace, 0, "reading",
                                  {"syntax error"}, {})
            ELSE LET file == FileSystem(fields[3])
                 IN  \E got \in 0..Len(file.lines) :
                       LET r == import_dataset(session.dataspace, fields[2],
                                   file, SubSeq(file.lines, 1, got))
                       IN  session' =
                             Entry(fields, r.dataspace, 0, "reading", r.log,
                                   {"import"} \cup
                                   IF got < Len(file.lines)
                                   THEN {"allocation failed"} ELSE {})
    /\ UNCHANGED <<dataset, options, mod, pc, tabs, design, fit, call>>

\* cmd_print: goes on after the syntax error.  estrdup and atoi read a field
\* that is not there through a null pointer, and print_dataset reads the
\* rows up to numlines whether the dataset has them or not: such a read ends
\* the process or yields something.
cmd_print ==
    /\ Reading
    /\ \E fields \in Lines, crash \in BOOLEAN :
         /\ Command(fields, WordPrint)
         /\ LET syntax   == IF Len(fields) # 3 THEN {"syntax error"} ELSE {}
                handle   == Str(csvfield(fields, 2))
                numlines == atoi(Str(csvfield(fields, 3)))
                at       == find_dataset(session.dataspace, handle)
                over     == Len(fields) >= 3 /\ at # 0
                            /\ numlines > Len(session.dataspace[at].obs)
            IN  /\ crash => Len(fields) < 3 \/ over
                /\ session' =
                     IF crash
                     THEN Entry(fields, session.dataspace, 0, "crashed", syntax,
                                IF over THEN {"lookup", "print"} ELSE {})
                     ELSE IF at = 0
                     THEN Entry(fields, session.dataspace, 0, "reading",
                                syntax \cup {"dataset not found"}, {"lookup"})
                     ELSE Entry(fields, session.dataspace, 0, "reading", syntax,
                                {"lookup", "print"})
    /\ UNCHANGED <<dataset, options, mod, pc, tabs, design, fit, call>>

\* cmd_weight: goes on after the syntax error; estrdup reads a field that is
\* not there through a null pointer.
cmd_weight ==
    /\ Reading
    /\ \E fields \in Lines, crash \in BOOLEAN :
         /\ Command(fields, WordWeight)
         /\ LET syntax  == IF Len(fields) # 3 THEN {"syntax error"} ELSE {}
                handle  == Str(csvfield(fields, 2))
                varname == Str(csvfield(fields, 3))
                at      == find_dataset(session.dataspace, handle)
                var     == find_varname(session.dataspace[at].varnames, varname)
            IN  /\ crash => Len(fields) < 3
                /\ session' =
                     IF crash
                     THEN Entry(fields, session.dataspace, 0, "crashed", syntax, {})
                     ELSE IF at = 0
                     THEN Entry(fields, session.dataspace, 0, "reading",
                                syntax \cup {"dataset not found"}, {"lookup"})
                     ELSE IF var = 0
                     THEN Entry(fields, session.dataspace, 0, "reading",
                                syntax \cup {"variable not found"}, {"lookup"})
                     ELSE Entry(fields,
                                [session.dataspace EXCEPT
                                   ![at] = set_weight_variable(@, var)],
                                0, "reading", syntax, {"lookup", "weight"})
    /\ UNCHANGED <<dataset, options, mod, pc, tabs, design, fit, call>>

\* cmd_table: as cmd_weight, with frequency_table in the place of
\* set_weight_variable.
cmd_table ==
    /\ Reading
    /\ \E fields \in Lines, crash \in BOOLEAN :
         /\ Command(fields, WordTable)
         /\ LET syntax  == IF Len(fields) # 3 THEN {"syntax error"} ELSE {}
                handle  == Str(csvfield(fields, 2))
                varname == Str(csvfield(fields, 3))
                at      == find_dataset(session.dataspace, handle)
                var     == find_varname(session.dataspace[at].varnames, varname)
            IN  /\ crash => Len(fields) < 3
                /\ session' =
                     IF crash
                     THEN Entry(fields, session.dataspace, 0, "crashed", syntax, {})
                     ELSE IF at = 0
                     THEN Entry(fields, session.dataspace, 0, "reading",
                                syntax \cup {"dataset not found"}, {"lookup"})
                     ELSE IF var = 0
                     THEN Entry(fields, session.dataspace, 0, "reading",
                                syntax \cup {"variable not found"}, {"lookup"})
                     ELSE Entry(fields, session.dataspace, 0, "reading", syntax,
                                {"lookup", "table"})
    /\ UNCHANGED <<dataset, options, mod, pc, tabs, design, fit, call>>

\* cmd_option: goes on after the syntax error; set_option reads a key or a
\* value that is not there through a null pointer.
cmd_option ==
    /\ Reading
    /\ \E fields \in Lines, crash \in BOOLEAN :
         /\ Command(fields, WordOption)
         /\ LET syntax == IF Len(fields) # 3 THEN {"syntax error"} ELSE {}
                k      == Str(csvfield(fields, 2))
                v      == Str(csvfield(fields, 3))
            IN  /\ crash => Len(fields) < 3
                /\ IF crash
                   THEN /\ session' = Entry(fields, session.dataspace, 0,
                                            "crashed", syntax, {})
                        /\ options' = options
                   ELSE /\ session' = Entry(fields, session.dataspace, 0,
                                            "reading", syntax, {"option"})
                        /\ options' = set_option(options, k, v)
    /\ UNCHANGED <<dataset, mod, pc, tabs, design, fit, call>>

\* How the process stands after a fit.
StatusAfter(end) ==
    IF end = "crashed" THEN "crashed"
    ELSE IF end = "fatal" THEN "exited" ELSE "reading"

\* cmd_logreg: the model is built from the fields and, when every name was
\* found, handed to mlelr with the dataset.  A fit that ends "fatal" ends in
\* eprintf after emalloc returned NULL.
cmd_logreg ==
    /\ Reading
    /\ fit' = fit
    /\ \E fields \in Lines :
         /\ Command(fields, WordLogreg)
         /\ \E p \in {ParseLogreg(fields, session.dataspace, g) : g \in Garbages} :
              IF ~p.call
              THEN /\ session' = Entry(fields, session.dataspace, 0, "reading",
                                       p.log,
                                       IF p.ds # 0 THEN {"lookup"} ELSE {})
                   /\ mod' = p.mod
                   /\ pc' = "idle"
                   /\ tabs' = NoTabs
                   /\ design' = NoDesign
                   /\ dataset' = dataset
              ELSE LET ds == session.dataspace[p.ds]
                   IN  \E o \in mlelr(ds, p.mod, options) :
                         /\ session' = Entry(fields, session.dataspace, 0,
                                             StatusAfter(o.pc),
                                             IF o.pc = "fatal"
                                             THEN {"fatal error"} ELSE {},
                                             {"lookup", "mlelr"} \cup
                                             IF o.pc = "fatal"
                                             THEN {"allocation failed"}
                                             ELSE {})
                         /\ mod' = p.mod
                         /\ pc' = o.pc
                         /\ tabs' = o.tabs
                         /\ design' = o.design
                         /\ dataset' = [obs |-> ds.obs, weight |-> ds.weight]
    /\ UNCHANGED <<options, call>>

NextCmd ==
    \/ EndOfInput \/ CsvgetlineFails \/ EmallocFails \/ BlankLine
    \/ CommandNotFound \/ cmd_quit \/ cmd_comment \/ cmd_help \/ cmd_import
    \/ cmd_print \/ cmd_weight \/ cmd_table \/ cmd_option \/ cmd_logreg

SpecCmd == InitCmd /\ [][NextCmd]_vars

\* ------------------------------------- model.c: a model built call by call

\* The calls of add_model_variable made on one model.
MaxCalls == 4

\* The third argument of add_model_variable: the names of the dataset and a
\* name it does not have.
CallNames == {NameA, NameB, NameY, NameZ}

\* The fourth argument: the five values of the enumeration and one outside.
CallTypes == VarTypes \cup {"OTHER"}

\* A model as init_model leaves it, and no call made.
InitModel ==
    /\ dataset = [obs |-> <<>>, weight |-> 0]
    /\ options = init_options
    /\ mod = init_model
    /\ pc = "model"
    /\ tabs = NoTabs
    /\ design = NoDesign
    /\ fit = NoFit
    /\ session = NoSession
    /\ call = [name |-> "init_model", n |-> 0]

\* One call of add_model_variable on the model.  INTERACTION is called only
\* once an interaction exists, as cmd_logreg calls it.  A call reads ividx
\* unset at most once, so one value g stands for what it reads.
AddModelVariable ==
    /\ pc = "model"
    /\ call.n < MaxCalls
    /\ \E varname \in CallNames, vartype \in CallTypes, g \in GarbageIdx :
          /\ vartype = "INTERACTION" => Len(mod.ints) > 0
          /\ LET r == add_model_variable(mod, VarNameSeqs, varname, vartype,
                                         [i \in 1..Len(VarNameSeqs) |-> g])
             IN  /\ mod' = r.mod
                 /\ call' = [name |-> "add_model_variable", n |-> call.n + 1,
                             before |-> mod, varname |-> varname,
                             vartype |-> vartype, ret |-> r.ret,
                             warned |-> r.warned]
    /\ UNCHANGED <<dataset, options, pc, tabs, design, fit, session>>

NextModel == AddModelVariable

SpecModel == InitModel /\ [][NextModel]_vars

\* --------------------------- dataset.c: the datasets imported call by call

\* The calls of import_dataset made on one dataspace.
MaxImports == 2

\* The files of the calls: a file of four observations, one with a short
\* second data line, one with the names only, one without a line, one whose
\* first line is blank, and one that does not open.
ImportFiles == {FileGood, FileShort, FileHeader, FileEmpty, FileBlank,
                FileMissing}

\* The dataspace as init_dataspace leaves it, and no call made.
InitImport ==
    /\ dataset = [obs |-> <<>>, weight |-> 0]
    /\ options = init_options
    /\ mod = init_model
    /\ pc = "import"
    /\ tabs = NoTabs
    /\ design = NoDesign
    /\ fit = NoFit
    /\ session = NoSession
    /\ call = [name |-> "init_dataspace", n |-> 0]

\* One call of import_dataset; csvgetline delivers the first got lines of
\* the file, all of them unless an allocation fails in it.
ImportDataset ==
    /\ pc = "import"
    /\ call.n < MaxImports
    /\ \E handle \in {HandleD, HandleE}, filename \in ImportFiles :
          LET file == FileSystem(filename)
          IN  \E got \in 0..Len(file.lines) :
                LET r == import_dataset(session.dataspace, handle, file,
                                        SubSeq(file.lines, 1, got))
                IN  /\ session' = [session EXCEPT !.dataspace = r.dataspace,
                                                  !.log = r.log]
                    /\ call' = [name |-> "import_dataset", n |-> call.n + 1,
                                handle |-> handle, filename |-> filename,
                                before |-> session.dataspace, ret |-> r.ret]
    /\ UNCHANGED <<dataset, options, mod, pc, tabs, design, fit>>

NextImport == ImportDataset

SpecImport == InitImport /\ [][NextImport]_vars

\* ----------------------------- interface.c: the options set call by call

\* The calls of set_option made on one option store.
MaxSets == 3

\* The keys of the calls: params, a key that params starts, a key that
\* starts with params, and a key that shares no first character with them.
KeyP == <<"p">>
KeyH == <<"h">>
OptionKeys == {KeyParams, KeyParamsX, KeyP, KeyH}

\* The values of the calls.
OptionValues == {ValDummy, ValCenterpoint}

\* The options as init_options leaves them, and no call made.
InitOptions ==
    /\ dataset = [obs |-> <<>>, weight |-> 0]
    /\ options = init_options
    /\ mod = init_model
    /\ pc = "options"
    /\ tabs = NoTabs
    /\ design = NoDesign
    /\ fit = NoFit
    /\ session = NoSession
    /\ call = [name |-> "init_options", n |-> 0]

\* One call of set_option.
SetOption ==
    /\ pc = "options"
    /\ call.n < MaxSets
    /\ \E k \in OptionKeys, v \in OptionValues :
          /\ options' = set_option(options, k, v)
          /\ call' = [name |-> "set_option", n |-> call.n + 1, k |-> k,
                      v |-> v, before |-> options]
    /\ UNCHANGED <<dataset, mod, pc, tabs, design, fit, session>>

NextOptions == SetOption

SpecOptions == InitOptions /\ [][NextOptions]_vars

\* --------------------------------- mlelr.c: newton_raphson in numbers

\* A double is a fraction <<numerator, denominator>> in lowest terms with a
\* positive denominator; the inputs are chosen so that every operation of
\* the step is exact on them.
RECURSIVE GCD(_, _)
GCD(a, b) == IF b = 0 THEN a ELSE GCD(b, a % b)

Q(a, b) ==
    LET n == IF b < 0 THEN 0 - a ELSE a
        d == Abs(b)
        g == GCD(Abs(n), d)
    IN  <<n \div g, d \div g>>

QInt(a) == <<a, 1>>
QZero == QInt(0)
QOne == QInt(1)
QAdd(x, y) == Q(x[1] * y[2] + y[1] * x[2], x[2] * y[2])
QNeg(x) == <<0 - x[1], x[2]>>
QSub(x, y) == QAdd(x, QNeg(y))
QMul(x, y) == Q(x[1] * y[1], x[2] * y[2])
QDiv(x, y) == Q(x[1] * y[2], x[2] * y[1])
QGeq(x, y) == x[1] * y[2] >= y[1] * x[2]
QGt(x, y) == x[1] * y[2] > y[1] * x[2]

\* The integers whose squares the inputs produce under a square root.
MaxRoot == 12

IsSquare(a) == \E r \in 0..MaxRoot : r * r = a
Root(a) == CHOOSE r \in 0..MaxRoot : r * r = a

\* sqrt of a fraction whose numerator and denominator are squares.
QIsSquare(x) == x[1] >= 0 /\ IsSquare(x[1]) /\ IsSquare(x[2])
QSqrt(x) == <<Root(x[1]), Root(x[2])>>

\* exp, with 2 in the place of e so that its values are fractions.
RECURSIVE Pow2(_)
Pow2(s) == IF s = 0 THEN 1 ELSE 2 * Pow2(s - 1)
QExp(x) == IF x[1] >= 0 THEN QInt(Pow2(x[1])) ELSE Q(1, Pow2(0 - x[1]))

\* The sum of f[lo], ..., f[hi], added in that order to 0.
RECURSIVE QSum(_, _, _)
QSum(f, lo, hi) ==
    IF lo > hi THEN QZero ELSE QAdd(f[hi], QSum(f, lo, hi - 1))

\* x[i][j] of a C matrix, and the matrix with x[i][j] set to v.
At(x, i, j) == x[i + 1][j + 1]
Put(x, i, j, v) == [x EXCEPT ![i + 1][j + 1] = v]

\* cholesky, the body of the loop on i after the test: the diagonal entry
\* and then the entries to its right, from the rows above.
CholeskySum(x, i, j) ==
    QSum([k \in 0..(i - 1) |-> QMul(At(x, k, i), At(x, k, j))], 0, i - 1)

CholeskyRow(x, i, order) ==
    LET d == QSqrt(QSub(At(x, i, i), CholeskySum(x, i, i)))
    IN  [x EXCEPT ![i + 1] =
            [j1 \in 1..order |->
               IF j1 - 1 < i THEN @[j1]
               ELSE IF j1 - 1 = i THEN d
               ELSE QDiv(QSub(@[j1], CholeskySum(x, i, j1 - 1)), d)]]

\* cholesky from row i on: ret 1 at the first row whose sum reaches the
\* diagonal entry.  exact is FALSE when a root is not a fraction; the
\* inputs are those for which it stays TRUE.
RECURSIVE CholeskyLoop(_, _, _)
CholeskyLoop(x, i, order) ==
    IF i >= order THEN [ret |-> 0, x |-> x, exact |-> TRUE, at |-> order]
    ELSE IF QGeq(CholeskySum(x, i, i), At(x, i, i))
    THEN [ret |-> 1, x |-> x, exact |-> TRUE, at |-> i]
    ELSE IF ~QIsSquare(QSub(At(x, i, i), CholeskySum(x, i, i)))
    THEN [ret |-> 0, x |-> x, exact |-> FALSE, at |-> i]
    ELSE CholeskyLoop(CholeskyRow(x, i, order), i + 1, order)

cholesky(x, order) == CholeskyLoop(x, 0, order)

\* backsub, the body of the loop on i after the test: the diagonal entry
\* inverted, then the column above it.
BacksubColumn(x, i) ==
    LET d  == QDiv(QOne, At(x, i, i))
        x1 == Put(x, i, i, d)
    IN  [r1 \in 1..Len(x) |->
           IF r1 - 1 < i
           THEN [x1[r1] EXCEPT ![i + 1] =
                   QMul(QNeg(QSum([k \in (r1 - 1)..(i - 1) |->
                                     QMul(At(x1, r1 - 1, k), At(x1, k, i))],
                                  r1 - 1, i - 1)), d)]
           ELSE x1[r1]]

RECURSIVE BacksubLoop(_, _, _)
BacksubLoop(x, i, order) ==
    IF i >= order THEN [ret |-> 0, x |-> x]
    ELSE IF At(x, i, i) = QZero THEN [ret |-> 1, x |-> x]
    ELSE BacksubLoop(BacksubColumn(x, i), i + 1, order)

\* backsub on a matrix that has a row: x[0][0] is tested before the loop,
\* the loop starts at row 1.
backsub(x, order) ==
    IF At(x, 0, 0) = QZero THEN [ret |-> 1, x |-> x]
    ELSE BacksubLoop(Put(x, 0, 0, QDiv(QOne, At(x, 0, 0))), 1, order)

\* A variant of the inner sum of trimult that starts at column j.
TrimultSum_fromj(in, i, j, order) ==
    QSum([k \in j..(order - 1) |-> QMul(At(in, i, k), At(in, j, k))],
         j, order - 1)

\* The inner sum of trimult: from the larger of i and j.
TrimultSum(in, i, j, order) ==
    LET m == IF i > j THEN i ELSE j
    IN  QSum([k \in m..(order - 1) |-> QMul(At(in, i, k), At(in, j, k))],
             m, order - 1)

\* trimult: every entry of out is written, the return value is always 0.
trimult(in, out, order) ==
    [ret |-> 0,
     out |-> [i1 \in 1..order |-> [j1 \in 1..order |->
                TrimultSum(in, i1 - 1, j1 - 1, order)]]]

\* The arguments of newton_raphson: a is a record of J, N, K, the rows of
\* X and Y, n and beta0, all of them integers.  a.X[i+1][k+1] is X[i][k].
Order(a) == a.K * (a.J - 1)

\* The predicted probabilities of population i: numer[j] / denom for the
\* first J - 1 levels and 1 / denom for the omitted one.
Numer(a, i, j) ==
    QExp(QSum([k \in 0..(a.K - 1) |->
                 QInt(a.X[i + 1][k + 1] * a.beta0[j * a.K + k + 1])],
              0, a.K - 1))

Denom(a, i) ==
    QAdd(QOne, QSum([j \in 0..(a.J - 2) |-> Numer(a, i, j)], 0, a.J - 2))

Pi(a, i, j) ==
    IF j < a.J - 1 THEN QDiv(Numer(a, i, j), Denom(a, i))
    ELSE QDiv(QOne, Denom(a, i))

\* A variant that leaves out the copy to H[kk][jj].
AddMirror_upper(H, jj, kk, v) == Put(H, jj, kk, QAdd(At(H, jj, kk), v))

\* H[jj][kk] += v; H[kk][jj] = H[jj][kk].
AddMirror(H, jj, kk, v) ==
    LET h == QAdd(At(H, jj, kk), v)
    IN  Put(Put(H, jj, kk, h), kk, jj, h)

\* X[i][k] * X[i][kprime].
XX(a, i, k, kprime) == QInt(a.X[i + 1][k + 1] * a.X[i + 1][kprime + 1])

\* The loop on kprime for jprime = j: kk is incremented before each use.
RECURSIVE SameLevel(_, _, _, _, _, _, _, _)
SameLevel(a, H, i, w1, k, kprime, jj, kk) ==
    IF kprime >= a.K THEN [H |-> H, kk |-> kk]
    ELSE SameLevel(a, AddMirror(H, jj, kk + 1, QMul(w1, XX(a, i, k, kprime))),
                   i, w1, k, kprime + 1, jj, kk + 1)

\* The loops on jprime > j and kprime, kk running on.
RECURSIVE OtherLevels(_, _, _, _, _, _, _, _, _)
OtherLevels(a, H, i, j, k, jprime, kprime, jj, kk) ==
    IF jprime >= a.J - 1 THEN H
    ELSE IF kprime >= a.K
    THEN OtherLevels(a, H, i, j, k, jprime + 1, 0, jj, kk)
    ELSE LET w2 == QNeg(QMul(QInt(a.n[i + 1]),
                             QMul(Pi(a, i, j), Pi(a, i, jprime))))
         IN  OtherLevels(a, AddMirror(H, jj, kk + 1,
                                      QMul(w2, XX(a, i, k, kprime))),
                         i, j, k, jprime, kprime + 1, jj, kk + 1)

\* The loops on j and k of one population: jj counts the pairs (j, k).
\* s holds g and H.
RECURSIVE Derivatives(_, _, _, _, _, _)
Derivatives(a, s, i, j, k, jj) ==
    IF j >= a.J - 1 THEN s
    ELSE IF k >= a.K THEN Derivatives(a, s, i, j + 1, 0, jj)
    ELSE LET npi  == QMul(QInt(a.n[i + 1]), Pi(a, i, j))
             q1   == QSub(QInt(a.Y[i + 1][j + 1]), npi)
             w1   == QMul(npi, QSub(QOne, Pi(a, i, j)))
             g1   == [s.g EXCEPT ![jj + 1] =
                        QAdd(@, QMul(q1, QInt(a.X[i + 1][k + 1])))]
             same == SameLevel(a, s.H, i, w1, k, k, jj, jj - 1)
             H1   == OtherLevels(a, same.H, i, j, k, j + 1, 0, jj, same.kk)
         IN  Derivatives(a, [g |-> g1, H |-> H1], i, j, k + 1, jj + 1)

\* The main loop on the populations, from g = 0 and H = 0.
RECURSIVE Populations(_, _, _)
Populations(a, s, i) ==
    IF i >= a.N THEN s
    ELSE Populations(a, Derivatives(a, s, i, 0, 0, 0), i + 1)

Assembled(a) ==
    Populations(a, [g |-> [q \in 1..Order(a) |-> QZero],
                    H |-> [q \in 1..Order(a) |->
                             [r \in 1..Order(a) |-> QZero]]], 0)

\* g[i] += the sum of H[i][j] * beta0[j].
Gradient(a, s) ==
    [q \in 1..Order(a) |->
       QAdd(s.g[q], QSum([r \in 1..Order(a) |->
                            QMul(s.H[q][r], QInt(a.beta0[r]))], 1, Order(a)))]

\* beta1[i] = the sum of xtwx[i][j] * g[j].
Solve(xtwx, g, order) ==
    [q \in 1..order |->
       QSum([r \in 1..order |-> QMul(xtwx[q][r], g[r])], 1, order)]

\* A variant of the early return that has set every parameter to 0.
ReturnEarly_solved(code, stages, H, g, exact, beta1, xtwx) ==
    [ret |-> code, stages |-> stages, H |-> H, g |-> g, exact |-> exact,
     beta1 |-> [q \in 1..Len(beta1) |-> QZero], xtwx |-> xtwx]

\* "return 11", "return 12": beta1 and xtwx have not been assigned.
ReturnEarly(code, stages, H, g, exact, beta1, xtwx) ==
    [ret |-> code, stages |-> stages, H |-> H, g |-> g, exact |-> exact,
     beta1 |-> beta1, xtwx |-> xtwx]

\* newton_raphson on K * (J - 1) > 0 parameters: what it returns, beta1 and
\* xtwx after it, the Hessian and the vector g it assembled and what the
\* three stages returned (Uninit for a stage not reached).  trimult has written xtwx
\* when its result is tested.  loglike and deviance are written before the
\* first stage and are not computed here.
NewtonRaphson(a, beta1, xtwx) ==
    LET s == Assembled(a)
        g == Gradient(a, s)
        c == cholesky(s.H, Order(a))
        b == backsub(c.x, Order(a))
        t == trimult(b.x, xtwx, Order(a))
    IN  IF c.ret # 0
        THEN ReturnEarly(11, <<c.ret, Uninit, Uninit>>, s.H, g, TRUE,
                         beta1, xtwx)
        ELSE IF ~c.exact
        THEN ReturnEarly(Uninit, <<Uninit, Uninit, Uninit>>, s.H, g, FALSE,
                         beta1, xtwx)
        ELSE IF b.ret # 0
        THEN ReturnEarly(12, <<c.ret, b.ret, Uninit>>, s.H, g, TRUE,
                         beta1, xtwx)
        ELSE IF t.ret # 0
        THEN ReturnEarly(13, <<c.ret, b.ret, t.ret>>, s.H, g, TRUE,
                         beta1, t.out)
        ELSE [ret |-> 0, stages |-> <<c.ret, b.ret, t.ret>>, H |-> s.H,
              g |-> g, exact |-> TRUE, beta1 |-> Solve(t.out, g, Order(a)),
              xtwx |-> t.out]

\* The populations of a call: at most MaxPop rows of X, the intercept and
\* at most one more column; n from PopCounts; every parameter of beta0 from
\* StartVals.
MaxPop == 2
PopCounts == {4, 12, 16, 18}
StartVals == {0, 1}

\* The rows of X: the intercept, and a column coded -1, 0 or 1.
XRows(K) == IF K = 1 THEN {<<1>>} ELSE {<<1, v>> : v \in {0 - 1, 0, 1}}

\* The row of Y for a population of count c: all of it in level at.
YRow(J, c, at) == [j \in 1..J |-> IF j = at THEN c ELSE 0]

\* The calls on a response of J levels with the populations, columns,
\* counts and starting values given: every row of Y sums to its n.
Calls(J, Ns, Ks, counts, starts) ==
    UNION {UNION {
        {[J |-> J, N |-> N, K |-> K, X |-> X, n |-> n, beta0 |-> b,
          Y |-> [i \in 1..N |-> YRow(J, n[i], at[i])]] :
            X \in [1..N -> XRows(K)], n \in [1..N -> counts],
            at \in [1..N -> {1, J}], b \in [1..(K * (J - 1)) -> starts]} :
        K \in Ks} : N \in Ns}

\* A response of two levels; a response of three levels, with one
\* population of 405 and beta0 = 2 throughout; a response of one level,
\* for which newton_raphson has no parameter.
TwoLevelCalls == Calls(2, 1..MaxPop, 1..2, PopCounts, StartVals)
ThreeLevelCalls == Calls(3, {1}, 1..2, {405}, {2})
OneLevelCalls == Calls(1, {1}, 1..2, PopCounts, {})

\* beta before the call is the copy mlelr made into beta0; xtwx before the
\* first call has never been written.
BetaBefore(a) == [q \in 1..Order(a) |-> QInt(a.beta0[q])]
XtwxBefore(a) == [q \in 1..Order(a) |-> [r \in 1..Order(a) |-> QInt(Uninit)]]

\* The calls on which the step is exact.
StepCalls ==
    {a \in TwoLevelCalls \cup ThreeLevelCalls :
        NewtonRaphson(a, BetaBefore(a), XtwxBefore(a)).exact}
    \cup OneLevelCalls

\* The arguments of a call, before it is made.
InitStep ==
    /\ dataset = [obs |-> <<>>, weight |-> 0]
    /\ options = init_options
    /\ mod = init_model
    /\ pc = "step"
    /\ tabs = NoTabs
    /\ design = NoDesign
    /\ fit = NoFit
    /\ session = NoSession
    /\ \E a \in StepCalls :
          call = [name |-> "arguments", a |-> a, beta1 |-> BetaBefore(a),
                  xtwx |-> XtwxBefore(a)]

\* The call of newton_raphson with one parameter or more.
StepCalled ==
    /\ pc = "step"
    /\ call.name = "arguments"
    /\ Order(call.a) > 0
    /\ call' = [name |-> "newton_raphson", a |-> call.a,
                before |-> [beta1 |-> call.beta1, xtwx |-> call.xtwx],
                out |-> NewtonRaphson(call.a, call.beta1, call.xtwx)]
    /\ pc' = "returned"
    /\ UNCHANGED <<dataset, options, mod, tabs, design, fit, session>>

\* The call without a parameter: the allocations of size 0 may fail, which
\* ends the process; cholesky returns 0 and backsub reads x[0][0] of a
\* matrix without rows, which ends the process or yields a value, zero
\* (return 12) or not (return 0 after trimult, nothing being written).
StepCalledEmpty ==
    /\ pc = "step"
    /\ call.name = "arguments"
    /\ Order(call.a) = 0
    /\ \E ended \in BOOLEAN, ret \in {0, 12} :
          /\ pc' = IF ended THEN "crashed" ELSE "returned"
          /\ call' = [name |-> "newton_raphson", a |-> call.a,
                      before |-> [beta1 |-> call.beta1, xtwx |-> call.xtwx],
                      out |-> [H |-> <<>>, g |-> <<>>, exact |-> TRUE,
                               ret |-> ret,
                               beta1 |-> call.beta1, xtwx |-> call.xtwx,
                               stages |-> IF ret = 0 THEN <<0, 0, 0>>
                                          ELSE <<0, 1, Uninit>>]]
    /\ UNCHANGED <<dataset, options, mod, tabs, design, fit, session>>

NextStep == StepCalled \/ StepCalledEmpty

SpecStep == InitStep /\ [][NextStep]_vars

\* ------------------------------------------------ what the claims speak of

\* The observations of the input dataset that have a positive weight.
PosObs == {i \in 1..Len(dataset.obs) : ObsWeight(dataset.weight, dataset.obs[i]) > 0}

RECURSIVE SumOver(_, _)
SumOver(S, f) ==
    IF S = {} THEN 0
    ELSE LET x == CHOOSE x \in S : TRUE IN f[x] + SumOver(S \ {x}, f)

WeightOf(S) == SumOver(S, [i \in S |-> ObsWeight(dataset.weight, dataset.obs[i])])

\* The key of an observation over the first n crosstab variables.
KeyOf(i, n) == [j \in 1..n |-> Target(mod, dataset.obs[i], j)]

\* The distinct values of the j-th crosstab variable, and their number.
LevelsOf(j) == {Target(mod, dataset.obs[i], j) : i \in PosObs}
NumLevels(j) == Cardinality(LevelsOf(j))

\* The k-th smallest element of a set of numbers.
KthOf(S, k) == CHOOSE v \in S : Cardinality({u \in S : u < v}) = k - 1

\* a is before b in the lexicographic order of the first n columns.
LexLess(a, b, n) ==
    \E k \in 1..n : a[k] < b[k] /\ \A h \in 1..(k - 1) : a[h] = b[h]

NumIv == Len(mod.iv)
Tabulated == pc \in {"tabulated", "built", "crashed", "fatal"}
Built == pc = "built"

\* The number of columns of a main effect, and of an interaction, as the
\* specification counts them.
SpecCols(j) == IF mod.direct[j] = 1 THEN 1 ELSE NumLevels(j) - 1

RECURSIVE SpecProduct(_, _)
SpecProduct(terms, r) ==
    IF r > Len(terms) THEN 1 ELSE SpecCols(terms[r]) * SpecProduct(terms, r + 1)

SpecK ==
    1 + SumOver(1..NumIv, [j \in 1..NumIv |-> SpecCols(j)])
      + SumOver(1..Len(mod.ints), [i \in 1..Len(mod.ints) |-> SpecProduct(mod.ints[i], 1)])

\* The first column of a main effect: after the intercept and the main
\* effects declared before it.
SpecStart(j) == 2 + SumOver(1..(j - 1), [h \in 1..(j - 1) |-> SpecCols(h)])

\* ----------------------------------------------------------------- claims

\* The keys of a table over its first n columns, as a set and in order.
TableKeys(tab, n) == {[j \in 1..n |-> tab[k][j]] : k \in 1..Len(tab)}

StrictlyAscending(tab, n) ==
    \A k \in 1..(Len(tab) - 1) : LexLess(tab[k], tab[k + 1], n)

\* C5: after tabulate returns, every frequency table and the crosstab hold
\* each distinct key of the positive-weight observations exactly once, in
\* strictly ascending lexicographic order of the full key (the value for a
\* frequency table; the main effects in declared order, then the response,
\* for the crosstab).
C5_TablesSortedUnique ==
    Tabulated =>
        /\ \A j \in 1..(NumIv + 1) :
              /\ StrictlyAscending(tabs.freqs[j], 1)
              /\ Len(tabs.freqs[j]) = NumLevels(j)
              /\ {tabs.freqs[j][k][1] : k \in 1..Len(tabs.freqs[j])} = LevelsOf(j)
        /\ StrictlyAscending(tabs.xtab, NumIv + 1)
        /\ TableKeys(tabs.xtab, NumIv + 1) = {KeyOf(i, NumIv + 1) : i \in PosObs}
        /\ Len(tabs.xtab) = Cardinality({KeyOf(i, NumIv + 1) : i \in PosObs})

\* C5 witness: tabulate has run on observations that arrive in descending
\* key order and that repeat a key.
C5_Witness ==
    /\ pc = "tabulated"
    /\ Len(dataset.obs) = 3
    /\ PosObs = {1, 2, 3}
    /\ Len(tabs.xtab) = 2
    /\ LexLess(KeyOf(2, NumIv + 1), KeyOf(1, NumIv + 1), NumIv + 1)
    /\ KeyOf(3, NumIv + 1) = KeyOf(1, NumIv + 1)

\* C7: the number of design columns is 1 for the intercept, plus 1 for each
\* direct main effect and L-1 for each categorical main effect with L levels,
\* plus for each interaction the product of the column counts of its terms;
\* two categorical main effects with 3 and 4 levels and their interaction
\* give 12.
C7_ColumnCount ==
    Built =>
        /\ design.K = SpecK
        /\ (/\ NumIv = 2 /\ mod.direct = <<0, 0>> /\ mod.ints = << <<1, 2>> >>
            /\ NumLevels(1) = 3 /\ NumLevels(2) = 4) => design.K = 12

\* C7 witness: the design of the 3-level by 4-level scenario has been built.
C7_Witness ==
    /\ Built
    /\ NumIv = 2 /\ mod.direct = <<0, 0>> /\ mod.ints = << <<1, 2>> >>
    /\ NumLevels(1) = 3 /\ NumLevels(2) = 4
    /\ design.K = 12

\* The value the specification gives to column k of the block of a
\* categorical effect j for the value v.
SpecCode(j, k, v) ==
    IF v = KthOf(LevelsOf(j), k) THEN 1
    ELSE IF v = KthOf(LevelsOf(j), NumLevels(j)) /\ ~Dummy(options) THEN 0 - 1
    ELSE 0

\* C8: in the row of X of the population of every crosstab row, the block of
\* a categorical main effect with ascending levels l_1 < ... < l_L has
\* column k (k < L) equal to 1 when the value is l_k, to -1 when the value is
\* the largest level l_L and the scheme is center-point, and to 0 otherwise
\* (so all zeros for the largest level under dummy coding); the block of a
\* direct effect is the raw value.
C8_Encoding ==
    Built =>
        \A i \in 1..Len(tabs.xtab) : \A j \in 1..NumIv :
            LET row == design.X[design.popindex[i]]
                v   == tabs.xtab[i][j]
            IN  /\ row[1] = 1
                /\ IF mod.direct[j] = 1 THEN row[SpecStart(j)] = v
                   ELSE \A k \in 1..(NumLevels(j) - 1) :
                           row[SpecStart(j) + k - 1] = SpecCode(j, k, v)

\* C8 witness: under center-point coding a categorical effect with 3 levels,
\* declared before a direct effect, has a population at its largest level,
\* coded -1 -1 and followed by the raw value of the direct effect.
C8_Witness ==
    /\ Built
    /\ ~Dummy(options)
    /\ NumIv = 2 /\ mod.direct = <<0, 1>>
    /\ NumLevels(1) = 3
    /\ \E i \in 1..Len(tabs.xtab) :
          /\ tabs.xtab[i][1] = KthOf(LevelsOf(1), 3)
          /\ tabs.xtab[i][2] = 2
          /\ SubSeq(design.X[design.popindex[i]], 1, 4) = <<1, 0 - 1, 0 - 1, 2>>

\* The crosstab rows of population p whose response is the j-th smallest
\* response value.
CellRows(p, j) ==
    {i \in 1..Len(tabs.xtab) :
        /\ design.popindex[i] = p
        /\ tabs.xtab[i][NumIv + 1] = KthOf(LevelsOf(NumIv + 1), j)}

KeyWeight(key, n) == WeightOf({i \in PosObs : KeyOf(i, n) = key})

\* The tables hold the positive-weight observations and nothing else: an
\* entry for a key only when an observation of positive weight has the key,
\* with the sum of the weights of those observations.
TablesOfPositive ==
    /\ \A j \in 1..(NumIv + 1) : \A k \in 1..Len(tabs.freqs[j]) :
          LET S == {i \in PosObs : Target(mod, dataset.obs[i], j) = tabs.freqs[j][k][1]}
          IN  S # {} /\ tabs.freqs[j][k][2] = WeightOf(S)
    /\ \A k \in 1..Len(tabs.xtab) :
          LET key == [j \in 1..(NumIv + 1) |-> tabs.xtab[k][j]]
          IN  /\ \E i \in PosObs : KeyOf(i, NumIv + 1) = key
              /\ tabs.xtab[k][NumIv + 2] = KeyWeight(key, NumIv + 1)

TotalsAgree ==
    /\ SumOver(1..design.N, [p \in 1..design.N |-> design.n[p]]) = design.M
    /\ design.M = WeightOf(PosObs)

\* C4: tabulate ignores every observation whose weight is <= 0, and once the
\* design is built the population totals n add up to M, which is the sum of
\* the weights of the positive-weight observations.
C4_Claim ==
    /\ Tabulated => TablesOfPositive
    /\ Built => TotalsAgree

\* C4 on a crosstab that has a row: the claim as stated, away from the read of
\* the first row of an empty crosstab.
C4_NonEmptyCrosstab ==
    /\ Tabulated => TablesOfPositive
    /\ (Built /\ Len(tabs.xtab) > 0) => TotalsAgree

\* A design built on an empty crosstab whose total frequency is not the sum
\* of the weights.
C4_EmptyCrosstabTotal ==
    Built /\ Len(tabs.xtab) = 0 /\ design.M # WeightOf(PosObs)


RowsBetween == design.N <= Len(tabs.xtab) /\ Len(tabs.xtab) <= design.N * design.J

\* C6: for every dataset and model handed to mlelr, the number N of
\* populations and the number R of crosstab rows satisfy N <= R <= N*J.
C6_Claim == Built => RowsBetween

\* C6 on a crosstab that has a row.
C6_NonEmptyCrosstab == (Built /\ Len(tabs.xtab) > 0) => RowsBetween

\* A design built on an empty crosstab: one population, no row.
C6_PopulationWithoutRow ==
    Built /\ Len(tabs.xtab) = 0 /\ design.N = 1


\* The first column of interaction i: after the intercept, the main effects
\* and the interactions declared before it.
SpecIntStart(i) ==
    2 + SumOver(1..NumIv, [j \in 1..NumIv |-> SpecCols(j)])
      + SumOver(1..(i - 1), [h \in 1..(i - 1) |-> SpecProduct(mod.ints[h], 1)])

\* The index tuples of an interaction, and the rank of a tuple in the order
\* in which the last term varies fastest.
IndexTuples(terms) ==
    {idx \in [1..Len(terms) -> 1..(Len(dataset.obs) + 1)] :
        \A r \in 1..Len(terms) : idx[r] <= SpecCols(terms[r])}

RECURSIVE SpecRank(_, _, _)
SpecRank(terms, idx, r) ==
    IF r > Len(terms) THEN 0
    ELSE (idx[r] - 1) * SpecProduct(terms, r + 1) + SpecRank(terms, idx, r + 1)

RECURSIVE SpecValue(_, _, _, _)
SpecValue(terms, idx, row, r) ==
    IF r > Len(terms) THEN 1
    ELSE row[SpecStart(terms[r]) + idx[r] - 1] * SpecValue(terms, idx, row, r + 1)

InteractionColumns ==
    /\ design.xc = SpecK
    /\ \A i \in 1..Len(mod.ints) : \A idx \in IndexTuples(mod.ints[i]) :
          \A p \in 1..design.N :
             design.X[p][SpecIntStart(i) + SpecRank(mod.ints[i], idx, 1)]
                = SpecValue(mod.ints[i], idx, design.X[p], 1)

\* C9: each interaction with per-term column counts c_1..c_m gives exactly
\* c_1*...*c_m columns, placed after the main-effect blocks in declared
\* order; the columns enumerate the index tuples with the last term varying
\* fastest, and a column holds, for each population, the product of the
\* main-effect columns its tuple points at.
C9_Claim == Built => InteractionColumns

\* Every categorical term of every interaction has at least two levels.
NoEmptyBlock ==
    \A i \in 1..Len(mod.ints) : \A r \in 1..Len(mod.ints[i]) :
        SpecCols(mod.ints[i][r]) >= 1

\* C9 when no term of an interaction has an empty block.
C9_NoEmptyBlock == (Built /\ NoEmptyBlock) => InteractionColumns

\* A design built on a non-empty crosstab in which an interaction was
\* written past the K columns of the rows of X.
C9_WrittenPastRow ==
    Built /\ Len(tabs.xtab) > 0 /\ Len(mod.ints) > 0 /\ Overflow(design)



\* ---------------------------------------------------------------- C1

\* C1: when a call of newton_raphson has returned a nonzero code, the
\* converged flag is false, the loop makes no further turn, and the report
\* prints "Convergence: NO".
C1_Claim ==
    (pc \in {"loop", "done"} /\ fit.calls > 0 /\ fit.nrret # 0)
        => /\ ~fit.convergence
           /\ ~LoopGuard(fit.iter, fit.convergence)
           /\ pc = "done" => fit.report.convergence = "NO"

\* The part of C1 that the program keeps: after a failed step the loop makes
\* no further turn.
C1_LoopStops ==
    (pc = "loop" /\ fit.calls > 0 /\ fit.nrret # 0)
        => ~LoopGuard(fit.iter, fit.convergence)

\* A fit whose first step failed and whose report is printed.
C1_FailedStepReported ==
    pc = "done" /\ fit.calls = 1 /\ fit.nrret = 11

\* ---------------------------------------------------------------- C2

\* The fit has left the loop: the report is printed or the process ended.
LoopLeft == pc \in {"done", "crashed"}

\* C2: the Newton-Raphson loop terminates; iter counts the calls of
\* newton_raphson and never exceeds MAX_ITER; a turn is made only while the
\* converged flag is unset and iter is below MAX_ITER, and the loop is left
\* for the report only when the flag is set or iter is MAX_ITER; the report
\* is printed after 1 to MAX_ITER calls and states their number.
C2_LoopTerminates ==
    /\ [](pc = "loop" => fit.iter = fit.calls /\ fit.iter <= MAX_ITER)
    /\ [](pc = "done" => /\ fit.calls >= 1
                         /\ fit.calls <= MAX_ITER
                         /\ fit.report.iterations = fit.calls
                         /\ fit.convergence \/ fit.iter = MAX_ITER)
    /\ [][/\ fit'.calls # fit.calls
             => ~fit.convergence /\ fit.iter < MAX_ITER
                    /\ fit'.calls = fit.calls + 1
          /\ (pc = "loop" /\ pc' = "done")
             => fit.convergence \/ fit.iter = MAX_ITER]_vars
    /\ (pc = "loop") ~> LoopLeft

\* A fit that left the loop at the iteration limit, without convergence.
C2_Witness ==
    pc = "done" /\ fit.calls = MAX_ITER /\ ~fit.convergence
        /\ fit.report.iterations = MAX_ITER

\* ---------------------------------------------------------------- C3

\* C3: the report of a fit that ended without convergence holds neither the
\* fit tests nor any row of the parameter table.
C3_Claim ==
    (pc = "done" /\ ~fit.convergence)
        => ~fit.report.fit_tests /\ fit.report.params = <<>>

\* The part of C3 that the program keeps: the fit tests are printed only for
\* a converged fit.
C3_NoFitTests ==
    (pc = "done" /\ ~fit.convergence) => ~fit.report.fit_tests

\* ---------------------------------------------------------------- C11

\* The last line read was a logreg command that cmd_logreg handled without
\* an allocation failing before the fit.
LogregLine ==
    /\ Command(session.line, WordLogreg)
    /\ "allocation failed" \in session.did => "mlelr" \in session.did

\* The names an effect token speaks of.
TokenNames(tok) ==
    IF FirstStar(tok) # 0
    THEN {Components(tok)[i] : i \in 1..Len(Components(tok))}
    ELSE IF IsDirect(tok) THEN {SubSeq(tok, 8, Len(tok))}
    ELSE {tok}

\* The names of the formula of a logreg line: the dependent variable and the
\* names of every effect token.
FormulaNames(fields) ==
    {fields[3]} \cup UNION {TokenNames(fields[i]) : i \in 5..Len(fields)}

IsVariable(ds, name) == \E v \in 1..Len(ds.varnames) : ds.varnames[v] = name

\* The last line was "logreg handle dv = effects" for a dataset of the
\* dataspace, and some name of its formula is no variable of that dataset.
UnknownNameInFormula ==
    /\ LogregLine
    /\ Len(session.line) >= 5
    /\ session.line[4] = Equals
    /\ find_dataset(session.dataspace, session.line[2]) # 0
    /\ \E name \in FormulaNames(session.line) :
         ~IsVariable(session.dataspace[find_dataset(session.dataspace,
                                                    session.line[2])], name)

\* C11: when a name of a logreg formula is no variable of the dataset,
\* cmd_logreg logs a message, does not call mlelr (nothing is tabulated, no
\* design is built), and returns 0, so that the session goes on.
C11_UnknownNameRejected ==
    UnknownNameInFormula =>
        /\ session.log # {}
        /\ "mlelr" \notin session.did
        /\ pc = "idle" /\ tabs = NoTabs /\ design = NoDesign
        /\ session.retval = 0
        /\ session.status = "reading"

\* A formula whose second interaction component is unknown was rejected after
\* its first effects had been found.
C11_Witness ==
    /\ UnknownNameInFormula
    /\ session.line = <<WordLogreg, HandleD, NameY, Equals, NameA, TokAZ>>
    /\ Len(mod.iv) = 1
    /\ session.log = {"syntax error"}

\* ---------------------------------------------------------------- C12

\* The last line was a logreg command whose formula cmd_logreg accepted.
FormulaAccepted == LogregLine /\ "mlelr" \in session.did

\* C12: after cmd_logreg has parsed an accepted formula, every term of every
\* interaction is a position of the main-effect list, and the main effect at
\* that position is the variable written at the term's place in the formula
\* (the name of an interaction is made of the names of its terms, in order).
C12_Claim ==
    FormulaAccepted =>
        \A i \in 1..Len(mod.ints) : \A t \in 1..Len(mod.ints[i]) :
            /\ mod.ints[i][t] \in 1..Len(mod.iv)
            /\ mod.ivnames[mod.ints[i][t]] = Components(mod.intnames[i])[t]

\* After "logreg d y = b a*b" the one interaction is named a and its term is
\* the position of b; the component b was then taken for a duplicate.
C12_TermDenotesOtherVariable ==
    /\ FormulaAccepted
    /\ session.line = <<WordLogreg, HandleD, NameY, Equals, NameB, TokAB>>
    /\ mod.ivnames = <<NameB, NameA>>
    /\ mod.ints = << <<1>> >>
    /\ mod.intnames = <<NameA>>

\* ---------------------------------------------------------------- C13

HasStar(tok) == FirstStar(tok) # 0

\* The interaction tokens of a logreg line, in written order.
StarTokens(fields) == SelectSeq(SubSeq(fields, 5, Len(fields)), HasStar)

\* A sequence without its repetitions, each element at its first place.
RECURSIVE Distinct(_)
Distinct(q) ==
    IF Len(q) = 0 THEN <<>>
    ELSE LET front == Distinct(SubSeq(q, 1, Len(q) - 1))
         IN  IF \E i \in 1..Len(front) : front[i] = q[Len(q)] THEN front
             ELSE Append(front, q[Len(q)])

\* Names joined by asterisks.
RECURSIVE Join(_)
Join(names) ==
    IF Len(names) = 0 THEN <<>>
    ELSE IF Len(names) = 1 THEN names[1]
    ELSE names[1] \o <<"*">> \o Join(Tail(names))

\* C13: after cmd_logreg has parsed an accepted formula, the model has one
\* interaction for each token with an asterisk, in written order; its terms
\* are the token's distinct components in written order and its name is
\* these components joined by asterisks.
C13_Claim ==
    FormulaAccepted =>
        LET toks == StarTokens(session.line)
        IN  /\ Len(mod.ints) = Len(toks)
            /\ \A k \in 1..Len(toks) :
                 LET c == Distinct(Components(toks[k]))
                 IN  /\ mod.intnames[k] = Join(c)
                     /\ Len(mod.ints[k]) = Len(c)
                     /\ \A t \in 1..Len(c) :
                          /\ mod.ints[k][t] \in 1..Len(mod.iv)
                          /\ mod.ivnames[mod.ints[k][t]] = c[t]

\* After "logreg d y = a b a*b*a" the one token has made two interactions,
\* a*b and a.
C13_TokenMadeTwoInteractions ==
    /\ FormulaAccepted
    /\ session.line = <<WordLogreg, HandleD, NameY, Equals, NameA, NameB, TokABA>>
    /\ mod.ints = << <<1, 2>>, <<1>> >>
    /\ mod.intnames = <<TokAB, NameA>>

\* ---------------------------------------------------------------- C14

\* The value stored under exactly the key k, or NULL.
ValueOf(opts, k) ==
    IF \E i \in 1..Len(opts) : opts[i][1] = k
    THEN opts[CHOOSE i \in 1..Len(opts) :
                 opts[i][1] = k /\ \A h \in 1..(i - 1) : opts[h][1] # k][2]
    ELSE NULL

\* The last line was a logreg command whose fit built a design from a
\* crosstab with rows.
FitBuilt ==
    /\ FormulaAccepted
    /\ pc = "done"
    /\ ~BadTerms(mod)
    /\ Len(tabs.xtab) > 0

\* The matrix X of the fit under one of the two codings.
CodedX(dummy) ==
    Design(mod, tabs, dummy, tabs.xtab[1][Len(mod.iv) + 2]).X

\* C14: the fit uses dummy coding exactly when the option params holds
\* "dummy"; when no option command with the key params was given since the
\* start, the coding is center-point.
C14_Claim ==
    FitBuilt =>
        /\ design.X = CodedX(ValueOf(options, KeyParams) = ValDummy)
        /\ KeyParams \notin session.keys => design.X = CodedX(FALSE)

\* A fit coded with dummy variables, in a run where the only option command
\* had a key other than params.
C14_DummyWithoutParamsCommand ==
    /\ FitBuilt
    /\ session.keys = {KeyParamsX}
    /\ design.X = CodedX(TRUE)
    /\ design.X # CodedX(FALSE)

\* ---------------------------------------------------------------- C15

\* C15: when the fit has returned, no buffer acquired for it is still
\* allocated: neither the local memory of a call of newton_raphson, whatever
\* the call returned, nor X, Y, n, beta, xtwx and the other working arrays
\* of mlelr.
C15_Claim == pc = "done" => fit.held = {} /\ fit.scratch = {}

\* A fit has returned after a failed step, with the local memory of that
\* step and the arrays of mlelr still allocated.
C15_ReturnedHolding ==
    /\ pc = "done"
    /\ fit.nrret = 11
    /\ fit.scratch = ScratchBuffers
    /\ {"X", "Y", "n", "beta", "xtwx"} \subseteq fit.held

\* ---------------------------------------------------------------- C16

\* C16: after an allocation has failed the process has ended with the
\* diagnostic of eprintf, and a process that ended otherwise than by the
\* return of main ended after an allocation failure.
C16_Claim ==
    /\ "allocation failed" \in session.did =>
           session.status = "exited" /\ "fatal error" \in session.log
    /\ session.status \in {"exited", "crashed"} =>
           "allocation failed" \in session.did

\* csvgetline could not allocate its buffers while reading a command:
\* input_handler returned 1 and main returned 0 without a diagnostic.
C16_ReadFailureEndsNormally ==
    /\ "allocation failed" \in session.did
    /\ session.retval = 1
    /\ session.status = "ended"
    /\ session.log = {}

\* ---------------------------------------------------------------- C17

\* The reorderings of a sequence.
Reorderings(q) ==
    {[i \in 1..Len(q) |-> q[f[i]]] :
        f \in {g \in [1..Len(q) -> 1..Len(q)] :
                  \A i, j \in 1..Len(q) : i # j => g[i] # g[j]}}

\* The dataset with its observations in another order.
Reordered(obs) == [dataset EXCEPT !.obs = obs]

\* C17: every reordering of the observations of the dataset yields the
\* crosstab and the frequency tables the fit has tabulated, and the N, J, K,
\* X, Y and n the fit has built.
C17_PermutationInvariant ==
    \A obs \in Reorderings(dataset.obs) :
        /\ Tabulated => tabulate(Reordered(obs), mod) = tabs
        /\ Built =>
             LET d == Design(mod, tabulate(Reordered(obs), mod),
                             Dummy(options), 0)
             IN  /\ d.N = design.N /\ d.J = design.J /\ d.K = design.K
                 /\ d.X = design.X /\ d.Y = design.Y /\ d.n = design.n

\* A design built from three observations that are not in sorted order and
\* fall into two populations.
C17_Witness ==
    /\ Built
    /\ Len(dataset.obs) = 3
    /\ \E obs \in Reorderings(dataset.obs) : obs # dataset.obs
    /\ compare_obs(dataset.obs[1], dataset.obs[2], 2) > 0
    /\ design.N = 2

\* ---------------------------------------------------------------- C18

\* The observations from the i-th on, each repeated as many times as its
\* weight says (an observation whose weight is not positive is left out).
RECURSIVE ExpandFrom(_, _, _)
ExpandFrom(obs, weightvar, i) ==
    IF i > Len(obs) THEN <<>>
    ELSE (IF obs[i][weightvar] > 0
          THEN [c \in 1..obs[i][weightvar] |-> obs[i]] ELSE <<>>)
         \o ExpandFrom(obs, weightvar, i + 1)

\* The fully expanded form of the weighted dataset: the copies, each of
\* weight 1 (the dataset has no weight variable).
Expanded == [obs |-> ExpandFrom(dataset.obs, dataset.weight, 1), weight |-> 0]

\* C18: for a weighted dataset, the fully expanded dataset, in which every
\* observation of positive weight w is replaced by w copies of weight 1,
\* yields the crosstab and the frequency tables the fit has tabulated, and
\* the N, J, K, X, Y and n the fit has built.
C18_ExpansionEquivalent ==
    dataset.weight # 0 =>
        /\ Tabulated => tabulate(Expanded, mod) = tabs
        /\ Built =>
             LET d == Design(mod, tabulate(Expanded, mod), Dummy(options), 0)
             IN  /\ d.N = design.N /\ d.J = design.J /\ d.K = design.K
                 /\ d.X = design.X /\ d.Y = design.Y /\ d.n = design.n

\* A design built from a weighted dataset that has an observation of weight
\* 2 and one of weight 1, whose expanded form has more observations.
C18_Witness ==
    /\ Built
    /\ dataset.weight = 2
    /\ \E i, j \in 1..Len(dataset.obs) :
         dataset.obs[i][2] = 2 /\ dataset.obs[j][2] = 1
    /\ Len(Expanded.obs) > Len(dataset.obs)
    /\ design.N >= 2

\* ---------------------------------------------------------------- C19

\* C19: leaving allocation failures aside, input_handler returns a value
\* other than 0 only for the command q or quit or at the end of the input,
\* and the run ends only then: after every other line main reads on.
C19_Claim ==
    "allocation failed" \notin session.did =>
        /\ session.retval # 0 =>
               "quit" \in session.did \/ "end of input" \in session.did
        /\ session.status \notin {"reading", "none"} =>
               "quit" \in session.did \/ "end of input" \in session.did

\* The line "print d" for an imported dataset d ended the run: input_handler
\* did not return.
C19_RunEndedByPrint ==
    /\ session.line = <<WordPrint, HandleD>>
    /\ find_dataset(session.dataspace, HandleD) # 0
    /\ "allocation failed" \notin session.did
    /\ session.status = "crashed"
    /\ session.retval = 0

\* ---------------------------------------------------------------- C20

\* The last line was one of the commands import, print, weight, table and
\* option with another number of arguments than the command expects, and
\* no allocation failed.
WrongArgumentCount ==
    /\ "allocation failed" \notin session.did
    /\ \/ Command(session.line, WordImport) /\ Len(session.line) # 4
       \/ /\ Len(session.line) > 0
          /\ session.line[1] \in {WordPrint, WordWeight, WordTable, WordOption}
          /\ Len(session.line) # 3

\* C20: a command import, print, weight, table or option with the wrong
\* number of arguments logs a syntax error and returns 0 without having done
\* anything: no dataset imported, looked up or printed, no weight variable
\* set, no option changed.
C20_Claim ==
    WrongArgumentCount =>
        /\ "syntax error" \in session.log
        /\ session.did = {}
        /\ session.retval = 0
        /\ session.status = "reading"

\* The line "weight d b x" logged the syntax error and set the weight
\* variable of d to b.
C20_WeightSetAfterSyntaxError ==
    /\ session.line = <<WordWeight, HandleD, NameB, Extra>>
    /\ "syntax error" \in session.log
    /\ "weight" \in session.did
    /\ session.dataspace[1].weight = 2

\* ------------------------------------------------------------------ C21

\* The last call was add_model_variable.
Added == call.name = "add_model_variable"

\* The position of the call's variable among the main effects before the
\* call, or 0.
CallIv ==
    LET iv == call.before.iv
        at == {i \in 1..Len(iv) : \E k \in 1..Len(VarNameSeqs) :
                  VarNameSeqs[k] = call.varname /\ iv[i] = k}
    IN  IF at = {} THEN 0 ELSE CHOOSE i \in at : \A h \in at : i <= h

\* The variable was a main effect before the call.
WasMainEffect == Added /\ CallIv # 0

\* The variable was a term of the latest interaction before the call.
WasLatestTerm ==
    /\ WasMainEffect
    /\ Len(call.before.ints) > 0
    /\ \E i \in 1..Len(call.before.ints[Len(call.before.ints)]) :
          call.before.ints[Len(call.before.ints)][i] = CallIv

\* C21: adding as MAIN or DIRECT a variable that is already a main effect
\* returns 0 and leaves the whole model as it was; adding as INTERACTION a
\* variable that is already a term of the latest interaction returns 0 and
\* leaves the terms and the name of that interaction as they were.
C21_DuplicateLeavesModel ==
    /\ (WasMainEffect /\ call.vartype \in {"MAIN", "DIRECT"})
          => /\ call.ret = 0
             /\ mod = call.before
    /\ (WasLatestTerm /\ call.vartype = "INTERACTION")
          => /\ call.ret = 0
             /\ Len(mod.ints) = Len(call.before.ints)
             /\ mod.ints[Len(mod.ints)] = call.before.ints[Len(mod.ints)]
             /\ mod.intnames[Len(mod.ints)]
                  = call.before.intnames[Len(mod.ints)]

\* A main effect registered as DIRECT, and a term of an interaction of two
\* terms, was added to that interaction again, with a warning.
C21_Witness ==
    /\ WasLatestTerm
    /\ call.vartype = "INTERACTION"
    /\ Len(call.before.ints[Len(call.before.ints)]) = 2
    /\ call.before.direct[CallIv] = 1
    /\ call.warned

\* ------------------------------------------------------------------ C22

\* The covariate prefix of crosstab row i: every column but the response
\* and the weight.
CovPrefix(i) == SubSeq(tabs.xtab[i], 1, Len(tabs.xtab[i]) - 2)

\* Every crosstab row has a population index, the first row has the first
\* index, and a later row has the index of the row before it, one more when
\* its covariate prefix differs.
WalkedByPrefix ==
    /\ Len(design.popindex) = Len(tabs.xtab)
    /\ \A i \in 1..Len(tabs.xtab) :
          design.popindex[i] =
            IF i = 1 THEN 1
            ELSE design.popindex[i - 1]
                   + (IF CovPrefix(i) # CovPrefix(i - 1) THEN 1 ELSE 0)

\* The indices do not decrease, they are exactly the N populations, and two
\* rows share an index exactly when they share a covariate prefix.
IndexIsPrefix ==
    /\ \A i \in 2..Len(tabs.xtab) :
          design.popindex[i - 1] <= design.popindex[i]
    /\ {design.popindex[i] : i \in 1..Len(tabs.xtab)} = 1..design.N
    /\ \A i, k \in 1..Len(tabs.xtab) :
          (design.popindex[i] = design.popindex[k])
            <=> (CovPrefix(i) = CovPrefix(k))

\* C22: in every design mlelr builds, the population indices are those of
\* a walk of the sorted crosstab by covariate prefix: non-decreasing,
\* covering exactly the N populations, equal exactly on equal prefixes.
C22_Claim == Built => (WalkedByPrefix /\ IndexIsPrefix)

\* C22 on a crosstab that has a row.
C22_NonEmptyCrosstab ==
    (Built /\ Len(tabs.xtab) > 0) => (WalkedByPrefix /\ IndexIsPrefix)

\* A crosstab of three rows or more and two populations or more, one of
\* them of two rows, has been segmented.
C22_SegmentedCrosstab ==
    /\ Built
    /\ Len(tabs.xtab) >= 3
    /\ design.N >= 2
    /\ \E i \in 2..Len(tabs.xtab) : design.popindex[i] = design.popindex[i - 1]

\* A design whose population 0 belongs to no crosstab row.
C22_IndexWithoutRow ==
    /\ Built
    /\ design.N = 1
    /\ \A i \in 1..Len(tabs.xtab) : design.popindex[i] # 1

\* ------------------------------------------------------------------ C23

\* newton_raphson has returned.
Returned == pc = "returned" /\ call.name = "newton_raphson"

\* The matrix without its first row and its column j.
Minor(m, j) ==
    [r \in 1..(Len(m) - 1) |->
       [c \in 1..(Len(m) - 1) |-> m[r + 1][IF c < j THEN c ELSE c + 1]]]

\* The determinant, by expansion along the first row.
RECURSIVE Det(_)
Det(m) ==
    IF Len(m) = 0 THEN QOne
    ELSE QSum([j \in 1..Len(m) |->
                 QMul(IF j % 2 = 1 THEN m[1][j] ELSE QNeg(m[1][j]),
                      Det(Minor(m, j)))], 1, Len(m))

\* A symmetric matrix on which the factorization goes through: every
\* leading minor is positive, so every partial sum stays below the
\* diagonal entry it is compared with.
PositiveMinors(m) ==
    \A k \in 1..Len(m) :
       QGt(Det([r \in 1..k |-> [c \in 1..k |-> m[r][c]]]), QZero)

\* The product of two square matrices is the identity.
Inverse(x, h) ==
    \A r, c \in 1..Len(h) :
       QSum([k \in 1..Len(h) |-> QMul(x[r][k], h[k][c])], 1, Len(h))
         = IF r = c THEN QOne ELSE QZero

\* C23: the value newton_raphson returns names the stage that failed: 11
\* exactly when the factorization found a partial sum that reaches the
\* diagonal entry, 12 exactly when it went through and the substitution
\* found a zero on the diagonal, 13 exactly when both went through and the
\* product failed, and 0 otherwise, with xtwx written as the inverse of
\* the Hessian H and beta1 as the solution of H * beta1 = g.
C23_CodeNamesStage ==
    Returned =>
        LET o == call.out
        IN  /\ o.ret \in {0, 11, 12, 13}
            /\ o.ret = 11 <=> o.stages[1] = 1
            /\ o.ret = 12 <=> (o.stages[1] = 0 /\ o.stages[2] = 1)
            /\ o.ret = 13 <=> (o.stages[1] = 0 /\ o.stages[2] = 0
                                 /\ o.stages[3] \notin {0, Uninit})
            /\ o.ret = 0 <=> o.stages = <<0, 0, 0>>
            /\ Order(call.a) > 0 => (o.ret = 11 <=> ~PositiveMinors(o.H))
            /\ o.ret = 0 =>
                  /\ Inverse(o.xtwx, o.H)
                  /\ \A q, r \in 1..Order(call.a) : o.xtwx[q][r] # QInt(Uninit)
                  /\ \A q \in 1..Order(call.a) :
                        QSum([r \in 1..Order(call.a) |->
                                QMul(o.H[q][r], o.beta1[r])], 1, Order(call.a))
                          = o.g[q]

\* A call on two parameters has failed in the factorization at its second
\* row, and the Hessian has a positive first entry.
C23_Witness ==
    /\ Returned
    /\ call.out.ret = 11
    /\ Order(call.a) = 2
    /\ QGt(call.out.H[1][1], QZero)

\* ------------------------------------------------------------------ C24

Symmetric(m) == \A r, c \in 1..Len(m) : m[r][c] = m[c][r]

\* C24: the Hessian newton_raphson assembles is symmetric when it is handed
\* to cholesky, and the xtwx of a call that returns 0 is symmetric.
C24_Symmetric ==
    Returned =>
        /\ Symmetric(call.out.H)
        /\ call.out.ret = 0 => Symmetric(call.out.xtwx)

\* A call on a response of three levels has returned 0 with an entry off
\* the diagonal of the Hessian and of xtwx that is not 0.
C24_Witness ==
    /\ Returned
    /\ call.out.ret = 0
    /\ call.a.J = 3
    /\ call.out.H[1][2] # QZero
    /\ call.out.xtwx[2][1] # QZero

\* ------------------------------------------------------------------ C25

\* The constant read as the bits of a double has its sign bit set, the
\* largest exponent of a finite number and every fraction bit set: the
\* finite number furthest below 0.
MostNegativeBits ==
    /\ SysmisDigits[1] >= 8
    /\ HexValue(SysmisDigits, 3) % 2048 = 2046
    /\ \A i \in 4..16 : SysmisDigits[i] = 15

\* The values of a sorted table, in its order: the first field of every
\* entry of a frequency table, a column of the crosstab.
TableValues ==
    {[k \in 1..Len(tabs.freqs[j]) |-> tabs.freqs[j][k][1]] :
        j \in 1..Len(tabs.freqs)}
    \cup {[k \in 1..Len(tabs.xtab) |-> tabs.xtab[k][1]]}

\* C25: SYSMIS is below every other value: in the frequency tables and the
\* crosstab that tabulate has sorted, no other value precedes an entry
\* that is SYSMIS, and SYSMIS is not the last, reference level of a table
\* that has another value.
C25_Claim ==
    Tabulated =>
        /\ SYSMIS < 0
        /\ \A t \in TableValues : \A k \in 1..Len(t) :
              t[k] = SYSMIS =>
                /\ \A h \in 1..(k - 1) : t[h] = SYSMIS
                /\ (\E h \in 1..Len(t) : t[h] # SYSMIS) => k # Len(t)

\* The constant has the bits of the most negative finite double, and a
\* frequency table with another value has SYSMIS as its last level.
C25_MissingIsReference ==
    /\ Tabulated
    /\ MostNegativeBits
    /\ \E j \in 1..Len(tabs.freqs) :
          /\ Len(tabs.freqs[j]) >= 2
          /\ tabs.freqs[j][Len(tabs.freqs[j])][1] = SYSMIS
          /\ tabs.freqs[j][1][1] # SYSMIS

\* ------------------------------------------------------------------ C26

\* C26: when newton_raphson returns a value other than 0, beta1 and xtwx
\* are what they were before the call.
C26_FailureLeavesOutputs ==
    (Returned /\ call.out.ret # 0) =>
        /\ call.out.beta1 = call.before.beta1
        /\ call.out.xtwx = call.before.xtwx

\* A call with a starting value other than 0 has failed.
C26_Witness ==
    /\ Returned
    /\ call.out.ret # 0
    /\ \E q \in 1..Order(call.a) : call.before.beta1[q] # QZero

\* ------------------------------------------------------------------ C27

\* The columns written in a row of X are the K columns it was allocated
\* with.
WrittenWithinRow ==
    /\ design.xc = design.K
    /\ \A p \in 1..design.N : Len(design.X[p]) = design.K

\* C27: in every design mlelr builds, the intercept, the main effects and
\* the interactions have written exactly the columns 0..K-1 of each row.
C27_Claim == Built => WrittenWithinRow

\* C27 when every categorical term of every interaction has two levels or
\* more.
C27_NoEmptyBlock == (Built /\ NoEmptyBlock) => WrittenWithinRow

\* An interaction with a categorical term of a single level has written
\* columns beyond K in a row of X.
C27_SingleLevelTermOverflows ==
    /\ Built
    /\ Len(tabs.xtab) > 0
    /\ \E i \in 1..Len(mod.ints) : \E r \in 1..Len(mod.ints[i]) :
          SpecCols(mod.ints[i][r]) = 0
    /\ design.xc > design.K
    /\ \E p \in 1..design.N : Len(design.X[p]) > design.K

\* ------------------------------------------------------------------ C28

\* The sum of column c of a table.
ColumnTotal(table, c) ==
    SumOver(1..Len(table), [k \in 1..Len(table) |-> table[k][c]])

\* C28: once tabulate has returned, the weights of every frequency table,
\* of the main effects and of the dependent variable, add up to the sum of
\* the weights of the crosstab.
C28_TotalsEqual ==
    Tabulated =>
        \A j \in 1..Len(tabs.freqs) :
            ColumnTotal(tabs.freqs[j], 2)
              = ColumnTotal(tabs.xtab, Len(mod.iv) + 2)

\* A weighted dataset with an observation of weight 0 has been tabulated
\* for a model of two main effects: the crosstab has two rows, one level of
\* the first main effect gathers both, and the total is 3 or more.
C28_Witness ==
    /\ Tabulated
    /\ dataset.weight # 0
    /\ \E i \in 1..Len(dataset.obs) :
          ObsWeight(dataset.weight, dataset.obs[i]) = 0
    /\ Len(mod.iv) = 2
    /\ Len(tabs.xtab) = 2
    /\ Len(tabs.freqs[1]) = 1
    /\ ColumnTotal(tabs.freqs[3], 2) >= 3

\* ------------------------------------------------------------------ C29

\* The last call was set_option.
OptionSet == call.name = "set_option"

\* get_option gives the value set for the key of the call, and for every
\* other key what it gave before the call.
OnlyKeySet ==
    /\ get_option(options, call.k) = call.v
    /\ \A k \in OptionKeys \ {call.k} :
          get_option(options, k) = get_option(call.before, k)

\* C29: after set_option(k, v), get_option(k) is v and get_option of every
\* other key is what it was before the call, also when one of the two keys
\* starts the other.
C29_Claim == OptionSet => OnlyKeySet

\* C29 for the key of the call, and for the other keys that do not start
\* with the same character.
C29_OtherFirstCharacter ==
    OptionSet =>
        /\ get_option(options, call.k) = call.v
        /\ \A k \in OptionKeys :
              k[1] # call.k[1] =>
                 get_option(options, k) = get_option(call.before, k)

\* A call of set_option with a key that starts with params and a value
\* other than that of params has changed what get_option gives for params.
C29_LongerKeySetParams ==
    /\ OptionSet
    /\ call.k = KeyParamsX
    /\ get_option(call.before, KeyParams) # call.v
    /\ get_option(options, KeyParams) = call.v
    /\ Len(options) = Len(call.before)

\* A call with the key h has left what get_option gives for params, which
\* an earlier call had set to dummy.
C29_UnrelatedKeySet ==
    /\ OptionSet
    /\ call.k = KeyH
    /\ call.v = ValCenterpoint
    /\ get_option(options, KeyParams) = ValDummy

\* ------------------------------------------------------------------ C30

\* The last call was import_dataset and it returned -1.
ImportFailed == call.name = "import_dataset" /\ call.ret = 0 - 1

\* The dataspace holds as many datasets as before the call, and
\* find_dataset gives for the handle what it gave before.
RegistryUnchanged ==
    /\ Len(session.dataspace) = Len(call.before)
    /\ find_dataset(session.dataspace, call.handle)
         = find_dataset(call.before, call.handle)

\* C30: when import_dataset returns -1, the number of datasets and the
\* result of find_dataset for the handle are what they were before the
\* call.
C30_Claim == ImportFailed => RegistryUnchanged

\* C30 for the failures that are found before the first data line is read.
C30_FailedBeforeData ==
    (ImportFailed /\ "invalid field count" \notin session.log)
        => RegistryUnchanged

\* An import that returned -1 for a short data line has left a dataset
\* under a handle that had none, holding the observations read before that
\* line.
C30_PartialDatasetVisible ==
    /\ ImportFailed
    /\ "invalid field count" \in session.log
    /\ find_dataset(call.before, call.handle) = 0
    /\ find_dataset(session.dataspace, call.handle) # 0
    /\ Len(session.dataspace[find_dataset(session.dataspace,
                                          call.handle)].obs) = 1

\* An import that returned -1 before any data line left the registry as it
\* was, a dataset being registered.
C30_EarlyFailure ==
    /\ ImportFailed
    /\ "no variable names found" \in session.log
    /\ Len(call.before) = 1
    /\ RegistryUnchanged

====
